---- MODULE Spec2Model ----
(***************************************************************************)
(* State-machine model of drivers/cpufreq/cpufreq_dynamic.c, the "dynamic" *)
(* cpufreq governor: run-queue average tracker, hotplug history and        *)
(* up/down checks, the per-tick frequency decision, the Active / Standby / *)
(* Suspend flags, input boost and overclock credit.                        *)
(*                                                                         *)
(* Frequencies are in kHz, the clock `now` is in milliseconds, sampling    *)
(* periods are in jiffies, exactly as the source keeps them.  The values   *)
(* the model reaches stay far below 2^31, so the unsigned 32-bit           *)
(* arithmetic of the source never wraps on them; every subtraction is      *)
(* guarded as in the source.                                               *)
(***************************************************************************)
EXTENDS Integers, Sequences, FiniteSets, TLC

(***************************************************************************)
(* Program constants (#define lines of the source).                        *)
(***************************************************************************)
RQ_AVG_TIMER_RATE == 10
DEF_FREQUENCY_UP_THRESHOLD == 85
DEF_DOWN_DIFFERENTIAL == 5
MICRO_FREQUENCY_MIN_SAMPLE_RATE == 10000
MICRO_FREQUENCY_UP_THRESHOLD == 95
MICRO_FREQUENCY_DOWN_DIFFERENTIAL == 10
MIN_SAMPLING_RATE_RATIO == 2
MIN_LATENCY_MULTIPLIER == 100
DEF_MAX_CPU_LOCK == 0
DEF_MIN_CPU_LOCK == 4
DEF_UP_NR_CPUS == 1
DEF_CPU_UP_RATE == 10
DEF_CPU_DOWN_RATE == 20
MAX_HOTPLUG_RATE == 40
HOTPLUG_DOWN_INDEX == 0
HOTPLUG_UP_INDEX == 1
INT_MAX == 2147483647

(***************************************************************************)
(* The platform the governor runs on: kernel configuration and the         *)
(* hardware frequency table.  These are collaborators of the governor.     *)
(***************************************************************************)
NR_CPUS == 4
HZ == 200
FreqTable == <<200000, 600000, 800000, 900000, 1000000>>
CpuinfoMinFreq == 200000
CpuinfoMaxFreq == 1000000
\* policy->cpuinfo.transition_latency, nanoseconds
TransitionLatency == 100000
\* cpus that share the governed policy (policy->cpus); cpu 0 owns the tick
PolicyCpus == {0, 1}

(***************************************************************************)
(* Bounds of the model.                                                    *)
(***************************************************************************)
\* the clock stops at MaxTime (milliseconds)
MaxTime == 2
\* largest value written to cpu_up_rate / cpu_down_rate through sysfs
MaxRateInput == 2
\* ticks stop once standby_counter has reached this value
MaxStandbyCounter == 3
\* largest nr_running() the run-queue tracker observes
MaxNrRunning == 4
\* the last millisecond of the clock where the run-queue tracker is studied
MaxTrackerTime == 4

\* the clock (ms) runs this far in SpecAlign: past the first expiry of the
\* tick at the default period of 20 jiffies
MaxAlignTime == 110


Min2(a, b) == IF a < b THEN a ELSE b
Max2(a, b) == IF a > b THEN a ELSE b

TableFreqs == {FreqTable[i] : i \in 1..Len(FreqTable)}

(***************************************************************************)
(* cpufreq_frequency_table_target(): the table entry chosen for `target`   *)
(* among the entries inside [pmin, pmax].  RELATION_H ("H") takes the      *)
(* highest entry at or below target, RELATION_L ("L") the lowest entry at  *)
(* or above it; when there is none the nearest entry on the other side.    *)
(***************************************************************************)
TableTarget(pmin, pmax, target, rel) ==
    LET ok   == {f \in TableFreqs : f >= pmin /\ f <= pmax}
        le   == {f \in ok : f <= target}
        ge   == {f \in ok : f >= target}
        hi(S) == CHOOSE f \in S : \A g \in S : g <= f
        lo(S) == CHOOSE f \in S : \A g \in S : g >= f
    IN  IF rel = "H"
        THEN IF le # {} THEN hi(le) ELSE lo(ok)
        ELSE IF ge # {} THEN lo(ge) ELSE hi(ok)

(***************************************************************************)
(* __cpufreq_driver_target(): the frequency the hardware runs at after the *)
(* driver was asked for `freq`.                                            *)
(***************************************************************************)
DriverTarget(pol, freq, rel) == TableTarget(pol.min, pol.max, freq, rel)

\* usecs_to_jiffies(), rounding up
usecs_to_jiffies(u) == (u * HZ + 999999) \div 1000000
\* jiffies_to_usecs()
jiffies_to_usecs(j) == j * (1000000 \div HZ)

\* _hotplug_rq[online - 1][idx] and _hotplug_freq[online - 1][idx]
hotplug_rq == << <<0, 100>>, <<100, 200>>, <<200, 300>>, <<300, 0>> >>
hotplug_freq == << <<0, 500000>>, <<200000, 500000>>,
                   <<200000, 500000>>, <<200000, 0>> >>

VARIABLES
    tuners,           \* dbs_tuners_ins
    policy,           \* the governed cpufreq policy: min, max, cur
    dbs,              \* cs_cpu_dbs_info of the governing cpu
    suspend,          \* static bool suspend
    standby,          \* static bool standby
    delay,            \* static unsigned int delay (sampling period, jiffies)
    last_input_time,  \* microseconds
    now,              \* the clock, milliseconds
    num_hist,         \* hotplug_history->num_hist
    usage,            \* hotplug_history->usage[0..MAX_HOTPLUG_RATE-1]
    rq_data,          \* run-queue tracker: nr_run_avg, last_time, total_time
    rq_work,          \* the tracker's delayed work is queued
    cpu_online,       \* cpu_online_mask
    up_work,          \* up_work is queued
    down_work,        \* down_work is queued
    suspend_work,     \* suspend_work is queued
    resume_work,      \* resume_work is queued
    tk,               \* what the last action did (observation of a tick,
                      \* an input event or a tracker read)
    qual_run,         \* consecutive standby-qualifying ticks so far
    rq_drained,       \* no tracker tick ran since get_nr_run_avg() last ran
    dwork,            \* dbs_info->work: its timer is pending, it is queued
                      \* on dbs_wq, do_dbs_timer() is running
    input_pc,         \* position of hotplug_input_event(): "idle", or
                      \* "cancelled" between the cancel and the queueing
    dbs_check         \* position of dbs_check_cpu() and its locals boosted
                      \* and active once it has read them

vars == <<tuners, policy, dbs, suspend, standby, delay, last_input_time, now,
          num_hist, usage, rq_data, rq_work, cpu_online, up_work, down_work,
          suspend_work, resume_work, tk, qual_run, rq_drained, dwork,
          input_pc, dbs_check>>

ktime_us == now * 1000
ktime_ns == now * 1000000

\* jiffies: HZ ticks of the clock in a second
jiffies == (now * HZ) \div 1000

(***************************************************************************)
(* is_boosted() and is_active()                                            *)
(***************************************************************************)
is_boosted(t, lit, us) ==
    /\ t.input_boost_freq > 0
    /\ us < lit + t.input_boost_us

\* every mode taken for Active
is_active_always(sus, stb) == TRUE

is_active(sus, stb) == ~(sus \/ stb)

(***************************************************************************)
(* recalculate_down_threshold(): the new down_threshold                    *)
(***************************************************************************)
recalculate_down_threshold(t, freq_lo, cur) ==
    LET span == (t.up_threshold - t.down_differential)
        temp == (span * freq_lo) \div cur
    IN  IF temp < 10 \/ temp > span THEN span \div 2 ELSE temp

(***************************************************************************)
(* unsigned int arithmetic, modulo 2^32.  A value is held as two 16-bit    *)
(* halves [hi, lo], so that no intermediate result reaches 2^31.           *)
(***************************************************************************)
HALF == 65536

\* the unsigned int of x, 0 <= x < 2^31
uint(x) == [hi |-> (x \div HALF) % HALF, lo |-> x % HALF]

\* a + b in unsigned int
uint_add(a, b) ==
    [hi |-> (a.hi + b.hi + (a.lo + b.lo) \div HALF) % HALF,
     lo |-> (a.lo + b.lo) % HALF]

\* the integer of a, for a below 2^31
uint_val(a) == a.hi * HALF + a.lo

\* a * n in unsigned int, for an integer n >= 0: at once where the product
\* stays below 2^31, by doubling otherwise
RECURSIVE uint_mul(_, _)
uint_mul(a, n) ==
    IF n = 0 THEN uint(0)
    ELSE IF a.hi < HALF \div 2 /\ uint_val(a) <= INT_MAX \div n
    THEN uint(uint_val(a) * n)
    ELSE CHOOSE r \in { uint_add(uint_add(h, h),
                                  IF n % 2 = 1 THEN a ELSE uint(0))
                        : h \in {uint_mul(a, n \div 2)} } : TRUE

\* a / k as an integer, for 0 < k < 2^15 and a quotient below 2^31
uint_div(a, k) ==
    (a.hi \div k) * HALF + ((a.hi % k) * HALF + a.lo) \div k

(***************************************************************************)
(* recalculate_freq_limits(): the tunables with the derived ceilings set   *)
(***************************************************************************)
recalculate_freq_limits(t, pol) ==
    LET hard0 == IF t.max_non_oc_freq # 0
                    /\ (t.oc_freq_boost_ms = 0
                        \/ (t.power_optimal_freq = 0 /\ t.suspend_max_freq = 0))
                 THEN t.max_non_oc_freq
                 ELSE IF t.power_optimal_freq # 0 THEN t.power_optimal_freq
                 ELSE IF t.suspend_max_freq # 0 THEN t.suspend_max_freq
                 ELSE pol.max
        soft0 == IF t.suspend_max_freq # 0 THEN t.suspend_max_freq
                 ELSE IF t.power_optimal_freq # 0 THEN t.power_optimal_freq
                 ELSE pol.max
        stby0 == IF t.max_non_oc_freq # 0
                    /\ ((t.max_non_oc_freq < pol.max /\ t.oc_freq_boost_ms = 0)
                        \/ t.power_optimal_freq = 0)
                 THEN t.max_non_oc_freq
                 ELSE IF t.power_optimal_freq # 0 THEN t.power_optimal_freq
                 ELSE pol.max
        \* the product is taken in unsigned int before the division
        oc    == IF pol.max > t.max_non_oc_freq /\ t.oc_freq_boost_ms # 0
                 THEN uint_div(uint_mul(uint_mul(uint(t.oc_freq_boost_ms),
                                                 NR_CPUS),
                                        pol.max - t.max_non_oc_freq),
                               1000)
                 ELSE 0
    IN  [t EXCEPT !._suspend_max_freq_hard = Min2(hard0, pol.max),
                  !._suspend_max_freq_soft = Min2(soft0, pol.max),
                  !._standby_max_freq_soft = Min2(stby0, pol.max),
                  !._oc_limit = oc,
                  !._standby_threshold_freq =
                        (pol.min + t.standby_threshold_freq)]

(***************************************************************************)
(* The window [num - rate, num - 1] of the history that check_up() and     *)
(* check_down() scan, and the minimum / maximum over it.                   *)
(***************************************************************************)
Window(num, rate) == {i \in 0..(MAX_HOTPLUG_RATE - 1) : i >= num - rate /\ i <= num - 1}

MinOver(S, start) ==
    IF S = {} THEN start
    ELSE LET m == CHOOSE x \in S : \A y \in S : x <= y IN Min2(start, m)

MaxOver(S, start) ==
    IF S = {} THEN start
    ELSE LET m == CHOOSE x \in S : \A y \in S : x >= y IN Max2(start, m)

(***************************************************************************)
(* check_up(): [ret, num_hist, rule].  `rem0` is what `num_hist % up_rate` *)
(* yields when up_rate is 0 (division by zero): TRUE for a non-zero        *)
(* remainder.  rule is the number of the rule that decided.                *)
(***************************************************************************)
check_up_history_first(t, online, boosted, nh, us, rem0) ==
    LET up_rate == t.cpu_up_rate
        up_freq == hotplug_freq[online][HOTPLUG_UP_INDEX + 1]
        up_rq   == hotplug_rq[online][HOTPLUG_UP_INDEX + 1]
        rem     == IF up_rate = 0 THEN rem0 ELSE nh % up_rate # 0
        W       == Window(nh, up_rate)
        min_freq   == MinOver({us[i].freq : i \in W}, INT_MAX)
        min_rq_avg == MinOver({us[i].rq_avg : i \in W}, INT_MAX)
    IN  IF online = NR_CPUS
        THEN [ret |-> FALSE, num_hist |-> nh, rule |-> 1]
        ELSE IF t.max_cpu_lock # 0 /\ online >= t.max_cpu_lock
        THEN [ret |-> FALSE, num_hist |-> nh, rule |-> 2]
        ELSE IF nh = 0 \/ rem
        THEN [ret |-> FALSE, num_hist |-> nh, rule |-> 5]
        ELSE IF t.min_cpu_lock # 0 /\ online < t.min_cpu_lock
        THEN [ret |-> TRUE, num_hist |-> nh, rule |-> 3]
        ELSE IF boosted /\ t.boost_mincpus # 0 /\ online < t.boost_mincpus
        THEN [ret |-> TRUE, num_hist |-> nh, rule |-> 4]
        ELSE IF min_freq >= up_freq /\ min_rq_avg > up_rq
        THEN [ret |-> TRUE, num_hist |-> 0, rule |-> 5]
        ELSE [ret |-> FALSE, num_hist |-> nh, rule |-> 5]

check_up(t, online, boosted, nh, us, rem0) ==
    LET up_rate == t.cpu_up_rate
        up_freq == hotplug_freq[online][HOTPLUG_UP_INDEX + 1]
        up_rq   == hotplug_rq[online][HOTPLUG_UP_INDEX + 1]
        rem     == IF up_rate = 0 THEN rem0 ELSE nh % up_rate # 0
        W       == Window(nh, up_rate)
        min_freq   == MinOver({us[i].freq : i \in W}, INT_MAX)
        min_rq_avg == MinOver({us[i].rq_avg : i \in W}, INT_MAX)
    IN  IF online = NR_CPUS
        THEN [ret |-> FALSE, num_hist |-> nh, rule |-> 1]
        ELSE IF t.max_cpu_lock # 0 /\ online >= t.max_cpu_lock
        THEN [ret |-> FALSE, num_hist |-> nh, rule |-> 2]
        ELSE IF t.min_cpu_lock # 0 /\ online < t.min_cpu_lock
        THEN [ret |-> TRUE, num_hist |-> nh, rule |-> 3]
        ELSE IF boosted /\ t.boost_mincpus # 0 /\ online < t.boost_mincpus
        THEN [ret |-> TRUE, num_hist |-> nh, rule |-> 4]
        ELSE IF nh = 0 \/ rem
        THEN [ret |-> FALSE, num_hist |-> nh, rule |-> 5]
        ELSE IF min_freq >= up_freq /\ min_rq_avg > up_rq
        THEN [ret |-> TRUE, num_hist |-> 0, rule |-> 5]
        ELSE [ret |-> FALSE, num_hist |-> nh, rule |-> 5]

(***************************************************************************)
(* check_down(): [ret, num_hist, rule], as check_up().                     *)
(***************************************************************************)
check_down_no_reset(t, online, boosted, nh, us, rem0) ==
    LET down_rate == t.cpu_down_rate
        down_freq == hotplug_freq[online][HOTPLUG_DOWN_INDEX + 1]
        down_rq   == hotplug_rq[online][HOTPLUG_DOWN_INDEX + 1]
        rem       == IF down_rate = 0 THEN rem0 ELSE nh % down_rate # 0
        W         == Window(nh, down_rate)
        max_freq   == MaxOver({us[i].freq : i \in W}, 0)
        max_rq_avg == MaxOver({us[i].rq_avg : i \in W}, 0)
    IN  IF boosted /\ t.boost_mincpus # 0 /\ online <= t.boost_mincpus
        THEN [ret |-> FALSE, num_hist |-> nh, rule |-> 1]
        ELSE IF online = 1
        THEN [ret |-> FALSE, num_hist |-> nh, rule |-> 2]
        ELSE IF t.max_cpu_lock # 0 /\ online > t.max_cpu_lock
        THEN [ret |-> TRUE, num_hist |-> nh, rule |-> 3]
        ELSE IF t.min_cpu_lock # 0 /\ online <= t.min_cpu_lock
        THEN [ret |-> FALSE, num_hist |-> nh, rule |-> 4]
        ELSE IF nh = 0 \/ rem
        THEN [ret |-> FALSE, num_hist |-> nh, rule |-> 5]
        ELSE IF max_freq <= down_freq /\ max_rq_avg <= down_rq
        THEN [ret |-> TRUE, num_hist |-> nh, rule |-> 5]
        ELSE [ret |-> FALSE, num_hist |-> nh, rule |-> 5]

check_down(t, online, boosted, nh, us, rem0) ==
    LET down_rate == t.cpu_down_rate
        down_freq == hotplug_freq[online][HOTPLUG_DOWN_INDEX + 1]
        down_rq   == hotplug_rq[online][HOTPLUG_DOWN_INDEX + 1]
        rem       == IF down_rate = 0 THEN rem0 ELSE nh % down_rate # 0
        W         == Window(nh, down_rate)
        max_freq   == MaxOver({us[i].freq : i \in W}, 0)
        max_rq_avg == MaxOver({us[i].rq_avg : i \in W}, 0)
    IN  IF boosted /\ t.boost_mincpus # 0 /\ online <= t.boost_mincpus
        THEN [ret |-> FALSE, num_hist |-> nh, rule |-> 1]
        ELSE IF online = 1
        THEN [ret |-> FALSE, num_hist |-> nh, rule |-> 2]
        ELSE IF t.max_cpu_lock # 0 /\ online > t.max_cpu_lock
        THEN [ret |-> TRUE, num_hist |-> nh, rule |-> 3]
        ELSE IF t.min_cpu_lock # 0 /\ online <= t.min_cpu_lock
        THEN [ret |-> FALSE, num_hist |-> nh, rule |-> 4]
        ELSE IF nh = 0 \/ rem
        THEN [ret |-> FALSE, num_hist |-> nh, rule |-> 5]
        ELSE IF max_freq <= down_freq /\ max_rq_avg <= down_rq
        THEN [ret |-> TRUE, num_hist |-> 0, rule |-> 5]
        ELSE [ret |-> FALSE, num_hist |-> nh, rule |-> 5]


(***************************************************************************)
(* What one action leaves behind for the properties to look at.            *)
(***************************************************************************)
NoTick == [kind |-> "none"]

\* dbs_check_cpu() is not running
NotEntered == [pc |-> "idle", boosted |-> FALSE, active |-> FALSE]

(***************************************************************************)
(* The per-cpu time samples a tick reads (wall_time and the idle_time left *)
(* after the io-wait and nice adjustments), in microseconds.               *)
(***************************************************************************)
SampleSet == { [wall |-> 10000, idle |-> 7000],
               [wall |-> 10000, idle |-> 4000],
               [wall |-> 10000, idle |-> 0],
               [wall |-> 0,    idle |-> 0] }

\* the cpus the load loop visits: for_each_cpu(j, policy->cpus)
LoadCpus == PolicyCpus \cap cpu_online

(***************************************************************************)
(* dbs_check_cpu(), "Get Absolute Load": max_load and the overclock credit *)
(* after the loop has visited the cpus of S in ascending order.            *)
(***************************************************************************)
RECURSIVE load_loop_unfloored(_, _, _, _)
load_loop_unfloored(S, smp, oc_freq_delta, acc) ==
    IF S = {} THEN acc
    ELSE LET j    == CHOOSE x \in S : \A y \in S : x <= y
             w    == smp[j].wall
             i    == smp[j].idle
             load == (100 * (w - i)) \div w
             oc_workload == (oc_freq_delta * (w - i)) \div 1000
             credit == IF oc_freq_delta = 0 THEN acc.credit
                       ELSE acc.credit - oc_workload
         IN  IF w = 0 \/ w < i
             THEN load_loop_unfloored(S \ {j}, smp, oc_freq_delta, acc)
             ELSE load_loop_unfloored(S \ {j}, smp, oc_freq_delta,
                                      [max_load |-> Max2(acc.max_load, load),
                                       credit |-> credit])

RECURSIVE load_loop(_, _, _, _)
load_loop(S, smp, oc_freq_delta, acc) ==
    IF S = {} THEN acc
    ELSE LET j    == CHOOSE x \in S : \A y \in S : x <= y
             w    == smp[j].wall
             i    == smp[j].idle
             load == (100 * (w - i)) \div w
             oc_workload == (oc_freq_delta * (w - i)) \div 1000
             credit == IF oc_freq_delta = 0 THEN acc.credit
                       ELSE IF acc.credit > oc_workload
                            THEN acc.credit - oc_workload ELSE 0
         IN  IF w = 0 \/ w < i
             THEN load_loop(S \ {j}, smp, oc_freq_delta, acc)
             ELSE load_loop(S \ {j}, smp, oc_freq_delta,
                            [max_load |-> Max2(acc.max_load, load),
                             credit |-> credit])

(***************************************************************************)
(* dbs_check_cpu(), history push: the index written and the count before   *)
(* the hotplug checks run.                                                  *)
(***************************************************************************)
hist_push_unguarded(nh) == [idx |-> nh, num_hist |-> nh + 1]

hist_push(nh) ==
    LET idx == IF nh >= MAX_HOTPLUG_RATE THEN 0 ELSE nh
    IN  [idx |-> idx, num_hist |-> idx + 1]

(***************************************************************************)
(* dbs_check_cpu(), "Check for CPU hotplug": the two checks, the works     *)
(* queued and the count left, including the reset at max_hotplug_rate.     *)
(***************************************************************************)
hotplug_check_both(t, online, boosted, sus, stb, nh, us, rem_up, rem_dn) ==
    LET up  == check_up(t, online, boosted, nh, us, rem_up)
        dn  == check_down(t, online, boosted, up.num_hist, us, rem_dn)
        nh1 == dn.num_hist
        max_hotplug_rate == Max2(t.cpu_up_rate, t.cpu_down_rate)
    IN  [up      |-> up.ret,
         up_rule |-> up.rule,
         dn_eval |-> TRUE,
         dn      |-> dn.ret,
         dn_rule |-> dn.rule,
         q_up    |-> up.ret,
         q_down  |-> dn.ret /\ (stb \/ sus),
         num_hist |-> IF nh1 = max_hotplug_rate THEN 0 ELSE nh1]

hotplug_check(t, online, boosted, sus, stb, nh, us, rem_up, rem_dn) ==
    LET max_hotplug_rate == Max2(t.cpu_up_rate, t.cpu_down_rate)
        left(n) == IF n = max_hotplug_rate THEN 0 ELSE n
    IN  CHOOSE r \in
          { IF up.ret
            THEN [up |-> TRUE, up_rule |-> up.rule, dn_eval |-> FALSE,
                  dn |-> FALSE, dn_rule |-> 0, q_up |-> TRUE, q_down |-> FALSE,
                  num_hist |-> left(up.num_hist)]
            ELSE CHOOSE s \in
                  { [up |-> FALSE, up_rule |-> up.rule, dn_eval |-> TRUE,
                     dn |-> dn.ret, dn_rule |-> dn.rule, q_up |-> FALSE,
                     q_down |-> dn.ret /\ (stb \/ sus),
                     num_hist |-> left(dn.num_hist)]
                    : dn \in {check_down(t, online, boosted, up.num_hist, us,
                                         rem_dn)} } : TRUE
            : up \in {check_up(t, online, boosted, nh, us, rem_up)} } : TRUE


(***************************************************************************)
(* dbs_check_cpu(), "Check for frequency increase": the frequency          *)
(* requested by the increase step, the table entry above policy->cur       *)
(* limited to policy->max.                                                 *)
(***************************************************************************)
increase_target_hold(pol) == pol.cur

increase_target(pol) ==
    Min2(TableTarget(pol.min, pol.max, (pol.cur + 1), "L"), pol.max)

(***************************************************************************)
(* dbs_check_cpu(), "calculate turbo boost limits": the hard and the soft  *)
(* ceiling after the overclock credit has been looked at.                  *)
(***************************************************************************)
turbo_limits_hard_only(t, d, active, hard, soft) ==
    IF active /\ t.max_non_oc_freq # 0 /\ t.oc_freq_boost_ms # 0
       /\ d.oc_boost_cycles < t._oc_limit
    THEN [hard |-> t.max_non_oc_freq, soft |-> soft]
    ELSE [hard |-> hard, soft |-> soft]

turbo_limits(t, d, active, hard, soft) ==
    IF active /\ t.max_non_oc_freq # 0 /\ t.oc_freq_boost_ms # 0
    THEN IF d.oc_boost_cycles = 0
         THEN [hard |-> t.max_non_oc_freq, soft |-> soft]
         ELSE IF d.oc_boost_cycles < t._oc_limit
         THEN [hard |-> hard, soft |-> t.max_non_oc_freq]
         ELSE [hard |-> hard, soft |-> soft]
    ELSE [hard |-> hard, soft |-> soft]

(***************************************************************************)
(* dbs_check_cpu(), "input boost logic": the frequency a boosted tick      *)
(* raises to, and whether max_freq_hard is set to it.                      *)
(***************************************************************************)
\* policy->max in Suspend whatever the overclock settings are
input_boost_target_max(t, pol, sus) ==
    [freq_target |-> IF sus THEN pol.max ELSE t.input_boost_freq,
     pinned |-> sus /\ t.max_non_oc_freq # 0 /\ t.oc_freq_boost_ms = 0]

input_boost_target(t, pol, sus) ==
    [freq_target |-> IF sus
                     THEN IF t.max_non_oc_freq # 0 /\ t.oc_freq_boost_ms = 0
                          THEN t.max_non_oc_freq ELSE pol.max
                     ELSE t.input_boost_freq,
     pinned |-> sus /\ t.max_non_oc_freq # 0 /\ t.oc_freq_boost_ms = 0]

(***************************************************************************)
(* dbs_check_cpu(), "frequency changing logic": input boost, ceilings,     *)
(* hard-limit enforcement, increase, standby activation and decrease.      *)
(* d is the per-cpu state after the load loop.  The result carries the new *)
(* per-cpu state, the new standby flag and sampling period, the frequency  *)
(* handed to the driver (cmd, 0 when none) with its relation, and the step *)
(* the function returned from.                                             *)
(***************************************************************************)
freq_decision(t, pol, d, sus, stb, dly, boosted, active, max_load) ==
    LET \* input boost target and the hard ceiling pinned with it
        pinned == boosted /\ input_boost_target(t, pol, sus).pinned
        freq_target == input_boost_target(t, pol, sus).freq_target
        \* ceilings before the turbo boost limits
        hard1 == IF boosted THEN (IF pinned THEN freq_target ELSE pol.max)
                 ELSE IF sus THEN t._suspend_max_freq_hard ELSE pol.max
        soft1 == IF ~boosted /\ sus THEN t._suspend_max_freq_soft ELSE pol.max
        turbo == active /\ t.max_non_oc_freq # 0 /\ t.oc_freq_boost_ms # 0
        hard2 == turbo_limits(t, d, active, hard1, soft1).hard
        soft2 == turbo_limits(t, d, active, hard1, soft1).soft
        hard_set == pinned \/ (~boosted /\ sus) \/ (turbo /\ d.oc_boost_cycles = 0)
        max_freq_hard == Min2(hard2, pol.max)
        \* increase step
        soft3 == IF stb THEN t._standby_max_freq_soft ELSE soft2
        max_freq_soft == Min2(soft3, max_freq_hard)
        delayed   == sus \/ stb
                     \/ (t.power_optimal_freq # 0 /\ pol.cur >= t.power_optimal_freq)
        up_factor == IF sus THEN t.suspend_sampling_up_factor
                     ELSE IF stb THEN t.standby_sampling_up_factor
                     ELSE t.high_freq_sampling_up_factor
        next_freq == increase_target(pol)
        \* standby activation
        at_thresh == pol.cur <= t._standby_threshold_freq
        counting  == at_thresh /\ active /\ ~boosted
        enter     == counting /\ d.standby_counter + 1 >= t.standby_delay_factor
        d7 == [d EXCEPT !.sampling_up_counter = 0,
                        !.standby_counter = IF counting THEN (@ + 1) ELSE @,
                        !.oc_boost_cycles = IF enter THEN 0 ELSE @]
        stb7 == stb \/ enter
        dly7 == IF counting THEN t.standby_sampling_rate ELSE dly
        \* decrease step
        span == (t.up_threshold - t.down_differential)
        min_supporting_freq ==
            TableTarget(pol.min, pol.max, (d.requested_freq * max_load) \div span, "L")
        relax == t.sampling_down_factor_relax_khz
        skipping == d7.down_skip + 1 < t.sampling_down_factor
        hold == skipping
                /\ (relax = 0
                    \/ d.freq_lo < (pol.min + relax)
                    \/ min_supporting_freq >
                         TableTarget(pol.min, pol.max, (d.freq_lo - relax), "L"))
        dec_freq == Max2(IF active THEN d.freq_lo ELSE min_supporting_freq, pol.min)
        res(dd, st, dl, cmd, rel, step, entered) ==
            [d |-> dd, standby |-> st, delay |-> dl, cmd |-> cmd, rel |-> rel,
             step |-> step,
             hard_set |-> IF step = "boost" THEN pinned ELSE hard_set,
             hard |-> IF step = "boost" /\ ~pinned THEN pol.max ELSE hard2,
             soft |-> max_freq_soft, max_freq_hard |-> max_freq_hard,
             entered |-> entered]
    IN  IF boosted /\ pol.cur < freq_target
        THEN res([d EXCEPT !.requested_freq = freq_target],
                 stb, dly, freq_target, "H", "boost", FALSE)
        ELSE IF d.requested_freq > max_freq_hard
        THEN res([d EXCEPT !.requested_freq = max_freq_hard],
                 stb, dly, max_freq_hard, "H", "hard", FALSE)
        ELSE IF max_load > (IF active THEN t.up_threshold ELSE 99)
        THEN IF d.requested_freq >= max_freq_soft
             THEN res([d EXCEPT !.down_skip = 0], stb, dly, 0, "H", "at_soft", FALSE)
             ELSE IF delayed /\ (d.sampling_up_counter + 1) < up_factor
             THEN res([d EXCEPT !.down_skip = 0, !.standby_counter = 0,
                                !.sampling_up_counter = (@ + 1)],
                      stb, dly, 0, "H", "up_delay", FALSE)
             ELSE res([d EXCEPT !.down_skip = 0, !.standby_counter = 0,
                                !.sampling_up_counter = 0,
                                !.requested_freq = next_freq],
                      stb, dly, next_freq, "H", "increase", FALSE)
        ELSE IF at_thresh /\ pol.cur = pol.min
        THEN res(d7, stb7, dly7, 0, "L", "at_min", enter)
        ELSE IF max_load < d.down_threshold
                /\ (~boosted \/ pol.cur > t.input_boost_freq)
        THEN IF active /\ hold
             THEN res([d7 EXCEPT !.down_skip = @ + 1], stb7, dly7, 0, "L",
                      "down_skip", enter)
             ELSE res([d7 EXCEPT !.down_skip = 0, !.requested_freq = dec_freq],
                      stb7, dly7, dec_freq, "L", "decrease", enter)
        ELSE res([d7 EXCEPT !.down_skip = 0], stb7, dly7, 0, "L", "hold", enter)

(***************************************************************************)
(* dbs_cpufreq_notifier(): the per-cpu state after a transition to `new`.  *)
(***************************************************************************)
dbs_cpufreq_notifier(t, pol, d, new) ==
    LET req == IF d.requested_freq > pol.max \/ d.requested_freq < pol.min
               THEN new ELSE d.requested_freq
        lo  == TableTarget(pol.min, pol.max, (new - 1), "H")
    IN  IF new > pol.min
        THEN [d EXCEPT !.requested_freq = req,
                       !.freq_lo = lo,
                       !.down_threshold = recalculate_down_threshold(t, lo, pol.cur)]
        ELSE [d EXCEPT !.requested_freq = req, !.freq_lo = pol.min]

(***************************************************************************)
(* The driver call of a tick or a limit change followed by the transition  *)
(* notifier when the hardware frequency changed: [pol, d].                 *)
(***************************************************************************)
commit(t, pol, d, cmd, rel) ==
    CHOOSE r \in
        { IF cmd = 0 \/ new = pol.cur
          THEN [pol |-> pol, d |-> d]
          ELSE [pol |-> [pol EXCEPT !.cur = new],
                d |-> dbs_cpufreq_notifier(t, [pol EXCEPT !.cur = new], d, new)]
          : new \in {DriverTarget(pol, cmd, rel)} } : TRUE


(***************************************************************************)
(* dbs_tuners_ins as its static initialiser and cpufreq_gov_dbs_init()     *)
(* leave it.  idle_micro tells whether get_cpu_idle_time_us() is supported *)
(* (idle micro-accounting); min_sampling_rate and DefaultTuners are the    *)
(* values without it, where the DEF_ thresholds stay.                      *)
(***************************************************************************)
min_sampling_rate_of(idle_micro) ==
    Max2(IF idle_micro THEN MICRO_FREQUENCY_MIN_SAMPLE_RATE
         ELSE MIN_SAMPLING_RATE_RATIO * jiffies_to_usecs(10),
         MIN_LATENCY_MULTIPLIER * Max2(TransitionLatency \div 1000, 1))

min_sampling_rate == min_sampling_rate_of(FALSE)

DefaultTuners ==
    [input_boost_freq |-> 200000,
     input_boost_us |-> 0,
     power_optimal_freq |-> 800000,
     high_freq_sampling_up_factor |-> 2,
     up_threshold |-> DEF_FREQUENCY_UP_THRESHOLD,
     down_differential |-> DEF_DOWN_DIFFERENTIAL,
     standby_delay_factor |-> 1,
     standby_threshold_freq |-> 100000,
     sampling_rate |-> (3 * HZ) \div 100,
     sampling_down_factor |-> 1,
     sampling_down_factor_relax_khz |-> 400000,
     max_non_oc_freq |-> 900000,
     oc_freq_boost_ms |-> 2000,
     standby_sampling_rate |-> (2 * HZ) \div 100,
     standby_sampling_up_factor |-> 5,
     suspend_sampling_rate |-> (3 * HZ) \div 100,
     suspend_sampling_up_factor |-> 7,
     suspend_max_freq |-> 600000,
     cpu_up_rate |-> DEF_CPU_UP_RATE,
     cpu_down_rate |-> DEF_CPU_DOWN_RATE,
     up_nr_cpus |-> DEF_UP_NR_CPUS,
     max_cpu_lock |-> DEF_MAX_CPU_LOCK,
     min_cpu_lock |-> DEF_MIN_CPU_LOCK,
     boost_mincpus |-> 0,
     _suspend_max_freq_soft |-> 0,
     _suspend_max_freq_hard |-> 0,
     _standby_max_freq_soft |-> 0,
     _oc_limit |-> 0,
     _standby_threshold_freq |-> 0]

(***************************************************************************)
(* cpufreq_governor_dbs(CPUFREQ_GOV_START): the sampling rates raised to   *)
(* the minimum, the derived ceilings, the per-cpu state and the timer.     *)
(***************************************************************************)
gov_start_tuners_of(t, pol, idle_micro) ==
    LET rate == Max2(t.sampling_rate,
                     usecs_to_jiffies(min_sampling_rate_of(idle_micro)))
    IN  recalculate_freq_limits(
            [t EXCEPT !.sampling_rate = rate,
                      !.standby_sampling_rate = Max2(@, rate),
                      !.suspend_sampling_rate = Max2(@, rate)], pol)

gov_start_tuners(t, pol) == gov_start_tuners_of(t, pol, FALSE)

gov_start_dbs(t, pol) ==
    [freq_lo |-> 0,
     down_skip |-> 0,
     requested_freq |-> pol.cur,
     sampling_up_counter |-> 0,
     standby_counter |-> 0,
     down_threshold |-> recalculate_down_threshold(t, 0, pol.cur),
     oc_boost_cycles |-> 0]

\* the tunables as sysfs writes made before the first tick left them
ConfiguredTuners(up_rate, down_rate, boost_ms, oc_ms, delay_factor) ==
    [DefaultTuners EXCEPT !.cpu_up_rate = Min2(up_rate, MAX_HOTPLUG_RATE),
                          !.input_boost_freq = 600000,
                          !.cpu_down_rate = Min2(down_rate, MAX_HOTPLUG_RATE),
                          !.input_boost_us = boost_ms * 1000,
                          !.oc_freq_boost_ms = oc_ms,
                          !.standby_delay_factor = delay_factor,
                          !.standby_sampling_up_factor = 2,
                          !.suspend_sampling_up_factor = 2]

\* a state of the governor with the tunables t: nh samples in the history
\* us, the run-queue tracker rq and the last input event at lit (us)
InitAt(t, pol, online, nh, us, rq, lit) ==
    /\ tuners = t
    /\ policy = pol
    /\ dbs = gov_start_dbs(t, pol)
    /\ suspend = FALSE
    /\ standby = FALSE
    /\ delay = t.sampling_rate
    /\ last_input_time = lit
    /\ now = 1
    /\ num_hist = nh
    /\ usage = us
    /\ rq_data = rq
    /\ rq_work = TRUE
    /\ cpu_online = online
    /\ up_work = FALSE
    /\ down_work = FALSE
    /\ suspend_work = FALSE
    /\ resume_work = FALSE
    /\ tk = NoTick
    /\ qual_run = 0
    /\ rq_drained = FALSE
    /\ dwork = [timer |-> TRUE, queued |-> FALSE, running |-> FALSE,
                expires |-> (HZ \div 1000)
                            + (t.sampling_rate
                               - ((HZ \div 1000) % t.sampling_rate))]
    /\ input_pc = "idle"
    /\ dbs_check = NotEntered

\* the state GOV_START leaves, with the tunables t it has completed
InitState(t, pol, online) ==
    InitAt(t, pol, online, 0,
           [i \in 0..(MAX_HOTPLUG_RATE - 1) |-> [freq |-> 0, rq_avg |-> 0]],
           [nr_run_avg |-> 0, last_time |-> 0, total_time |-> 0], 0)

InitWith(t0, cur, online) ==
    LET pol == [min |-> CpuinfoMinFreq, max |-> CpuinfoMaxFreq, cur |-> cur]
    IN  InitState(gov_start_tuners(t0, pol), pol, online)

\* the same on a platform with idle micro-accounting: cpufreq_gov_dbs_init()
\* has replaced the thresholds and the minimum sampling rate
InitIdleMicro(t0, cur, online) ==
    LET pol == [min |-> CpuinfoMinFreq, max |-> CpuinfoMaxFreq, cur |-> cur]
        t1  == [t0 EXCEPT !.up_threshold = MICRO_FREQUENCY_UP_THRESHOLD,
                          !.down_differential = MICRO_FREQUENCY_DOWN_DIFFERENTIAL]
    IN  InitState(gov_start_tuners_of(t1, pol, TRUE), pol, online)


(***************************************************************************)
(* get_nr_run_avg(): the value returned and the tracker state left.        *)
(***************************************************************************)
get_nr_run_avg_peek(rq) == [ret |-> rq.nr_run_avg, rq |-> rq]

get_nr_run_avg(rq) ==
    [ret |-> rq.nr_run_avg, rq |-> [rq EXCEPT !.nr_run_avg = 0]]

(***************************************************************************)
(* do_dbs_timer() -> dbs_check_cpu(): one decision tick of the governing   *)
(* cpu.  smp are the time samples of the cpus of the policy (Lead: those   *)
(* cpu 0 may report, Others: those the other cpus may report); rem_up and  *)
(* rem_dn are                                                              *)
(* the outcomes of the remainder by a zero hotplug rate.  The function is  *)
(* written in its stages: history push, load loop, hotplug and frequency   *)
(* decision, driver call.                                                  *)
(***************************************************************************)
tick_commit(smp, push, rq_read, us1, ll, hp, fd, cm, boosted, qualifying, run) ==
    /\ fd.d.standby_counter <= MaxStandbyCounter
    /\ usage' = us1
    /\ rq_data' = get_nr_run_avg(rq_data).rq
    /\ rq_drained' = TRUE
    /\ num_hist' = hp.num_hist
    /\ up_work' = (up_work \/ hp.q_up)
    /\ down_work' = (down_work \/ hp.q_down)
    /\ policy' = cm.pol
    /\ dbs' = cm.d
    /\ standby' = fd.standby
    /\ delay' = fd.delay
    /\ qual_run' = IF fd.entered THEN 0 ELSE run
    /\ tk' = [kind |-> "tick", step |-> fd.step,
              hard_set |-> fd.hard_set,
              hard |-> IF fd.hard_set THEN fd.hard ELSE 0,
              entered |-> fd.entered,
              over |-> ll.max_load > tuners.up_threshold,
              under |-> ll.max_load < dbs.down_threshold,
              boosted |-> boosted,
              up |-> hp.up, up_rule |-> hp.up_rule, dn_eval |-> hp.dn_eval,
              dn |-> hp.dn, dn_rule |-> hp.dn_rule,
              q_up |-> hp.q_up, q_down |-> hp.q_down,
              push_idx |-> push.idx, pushed |-> push.num_hist,
              rq_read |-> rq_read,
              qualifying |-> qualifying, run |-> run, smp |-> smp,
              credit |-> ll.credit, max_freq_hard |-> fd.max_freq_hard,
              max_freq_soft |-> fd.soft]
    /\ UNCHANGED <<tuners, suspend, last_input_time, now, rq_work,
                   cpu_online, suspend_work, resume_work>>

tick_freq(smp, push, rq_read, us1, ll, hp, fd, boosted, qualifying) ==
    \E cm \in {commit(tuners, policy, fd.d, fd.cmd, fd.rel)} :
        tick_commit(smp, push, rq_read, us1, ll, hp, fd, cm, boosted,
                    qualifying,
                    IF qualifying THEN Min2(qual_run + 1, MaxStandbyCounter) ELSE 0)

tick_load(smp, push, rq_read, us1, ll, boosted, active, rem_up, rem_dn) ==
    \E hp \in {hotplug_check(tuners, Cardinality(cpu_online), boosted, suspend,
                             standby, push.num_hist, us1, rem_up, rem_dn)} :
    \E fd \in {freq_decision(tuners, policy,
                             [dbs EXCEPT !.oc_boost_cycles = ll.credit],
                             suspend, standby, delay, boosted, active,
                             ll.max_load)} :
        tick_freq(smp, push, rq_read, us1, ll, hp, fd, boosted,
                  /\ active /\ ~boosted
                  /\ ~(ll.max_load > tuners.up_threshold)
                  /\ policy.cur <= tuners._standby_threshold_freq)

tick_push(smp, push, boosted, active, rem_up, rem_dn) ==
    \E rq_read \in {get_nr_run_avg(rq_data).ret} :
    \E ll \in {load_loop(LoadCpus, smp,
                         IF active /\ policy.cur > tuners.max_non_oc_freq
                            /\ dbs.oc_boost_cycles # 0
                         THEN (policy.cur - tuners.max_non_oc_freq) \div 1000
                         ELSE 0,
                         [max_load |-> 0, credit |-> dbs.oc_boost_cycles])} :
        tick_load(smp, push, rq_read,
                  [usage EXCEPT ![push.idx] =
                      [freq |-> policy.cur, rq_avg |-> rq_read]],
                  ll, boosted, active, rem_up, rem_dn)

dbs_check_cpu(smp, rem_up, rem_dn) ==
    \E push \in {hist_push(num_hist)} :
        tick_push(smp, push,
                  is_boosted(tuners, last_input_time, ktime_us),
                  is_active(suspend, standby), rem_up, rem_dn)

\* dbs_check_cpu() on the samples the cpus report at this tick
sample_and_check(Lead, Others) ==
    \E smp \in {f \in [LoadCpus -> SampleSet] :
                   /\ f[0] \in Lead
                   /\ \A j \in LoadCpus \ {0} : f[j] \in Others} :
    \E rem_up \in (IF tuners.cpu_up_rate = 0 THEN BOOLEAN ELSE {FALSE}) :
    \E rem_dn \in (IF tuners.cpu_down_rate = 0 THEN BOOLEAN ELSE {FALSE}) :
        dbs_check_cpu(smp, rem_up, rem_dn)

(***************************************************************************)
(* do_dbs_timer() as one step: the timer of the pending work expires, the  *)
(* work runs dbs_check_cpu() and queues itself again with the delay.       *)
(***************************************************************************)
do_dbs_timer(Lead, Others) ==
    /\ dwork.timer
    /\ sample_and_check(Lead, Others)
    /\ UNCHANGED <<dwork, input_pc, dbs_check>>

(***************************************************************************)
(* The same in the steps the workqueue takes.  delayed_work_timer_fn():    *)
(* the timer expires and the work is queued on dbs_wq.  worker_start: the  *)
(* worker takes the work off the queue, clears its pending bit and calls   *)
(* do_dbs_timer().  do_dbs_timer_run(): dbs_check_cpu() and                *)
(* queue_delayed_work_on(), which arms the timer unless the work is        *)
(* pending already.                                                        *)
(***************************************************************************)
delayed_work_timer_fn ==
    /\ dwork.timer
    /\ dwork' = [dwork EXCEPT !.timer = FALSE, !.queued = TRUE]
    /\ UNCHANGED <<tuners, policy, dbs, suspend, standby, delay,
                   last_input_time, now, num_hist, usage, rq_data, rq_work,
                   cpu_online, up_work, down_work, suspend_work, resume_work,
                   tk, qual_run, rq_drained, input_pc, dbs_check>>

worker_start ==
    /\ dwork.queued /\ ~dwork.running
    /\ dwork' = [dwork EXCEPT !.queued = FALSE, !.running = TRUE]
    /\ UNCHANGED <<tuners, policy, dbs, suspend, standby, delay,
                   last_input_time, now, num_hist, usage, rq_data, rq_work,
                   cpu_online, up_work, down_work, suspend_work, resume_work,
                   tk, qual_run, rq_drained, input_pc, dbs_check>>

\* queue_delayed_work_on(cpu, dbs_wq, &dbs_info->work,
\*                       delay - jiffies % delay)
\* at the end of do_dbs_timer(): the work dw as it can be left.  The delay is
\* computed before the call; with a period of 0 the division is undefined:
\* it traps and the work never queues itself, or it yields a remainder (0)
\* and the work is queued for the current jiffy.
queue_next_tick(dw, dly, j) ==
    IF dly = 0
    THEN {dw} \cup (IF dw.timer \/ dw.queued THEN {}
                    ELSE {[dw EXCEPT !.timer = TRUE, !.expires = j]})
    ELSE IF dw.timer \/ dw.queued
         THEN {dw}
         ELSE {[dw EXCEPT !.timer = TRUE, !.expires = j + (dly - (j % dly))]}

do_dbs_timer_run(Lead, Others) ==
    /\ dwork.running
    /\ sample_and_check(Lead, Others)
    /\ dwork' \in queue_next_tick([dwork EXCEPT !.running = FALSE],
                                  delay', jiffies)
    /\ UNCHANGED <<input_pc, dbs_check>>

\* delayed_work_timer_fn() no earlier than the jiffy the timer was set for
delayed_work_timer_due ==
    /\ jiffies >= dwork.expires
    /\ delayed_work_timer_fn

(***************************************************************************)
(* do_dbs_timer() -> dbs_check_cpu() in two steps.  dbs_check_cpu_enter:   *)
(* do_dbs_timer() has taken dbs_info->timer_mutex and dbs_check_cpu() has  *)
(* read is_boosted() and is_active() into its locals.                      *)
(* dbs_check_cpu_rest(): the rest of the function, which uses the locals   *)
(* and reads suspend, standby, delay and the tunables again, then the      *)
(* queueing of the next tick and the unlock.                               *)
(***************************************************************************)
dbs_check_cpu_enter ==
    /\ dwork.running
    /\ dbs_check.pc = "idle"
    /\ dbs_check' = [pc |-> "entered",
                     boosted |-> is_boosted(tuners, last_input_time, ktime_us),
                     active |-> is_active(suspend, standby)]
    /\ UNCHANGED <<tuners, policy, dbs, suspend, standby, delay,
                   last_input_time, now, num_hist, usage, rq_data, rq_work,
                   cpu_online, up_work, down_work, suspend_work, resume_work,
                   tk, qual_run, rq_drained, dwork, input_pc>>

dbs_check_cpu_rest(Lead, Others) ==
    /\ dbs_check.pc = "entered"
    /\ \E smp \in {f \in [LoadCpus -> SampleSet] :
                      /\ f[0] \in Lead
                      /\ \A j \in LoadCpus \ {0} : f[j] \in Others} :
       \E rem_up \in (IF tuners.cpu_up_rate = 0 THEN BOOLEAN ELSE {FALSE}) :
       \E rem_dn \in (IF tuners.cpu_down_rate = 0 THEN BOOLEAN ELSE {FALSE}) :
       \E push \in {hist_push(num_hist)} :
           tick_push(smp, push, dbs_check.boosted, dbs_check.active,
                     rem_up, rem_dn)
    /\ dwork' \in queue_next_tick([dwork EXCEPT !.running = FALSE],
                                  delay', jiffies)
    /\ dbs_check' = NotEntered
    /\ UNCHANGED input_pc

(***************************************************************************)
(* hotplug_input_event(): the mode flag, sampling period, overclock credit *)
(* and input time the handler leaves, and whether it re-queued the tick.   *)
(***************************************************************************)
input_event_keep(t, pol, d, lit, us) ==
    LET skip == us - lit < t.input_boost_us \/ pol.cur >= t.input_boost_freq
    IN  [standby |-> FALSE,
         delay |-> t.sampling_rate,
         d |-> IF t._oc_limit # 0
               THEN [d EXCEPT !.oc_boost_cycles =
                                  uint_val(uint_mul(uint(t._oc_limit), 2))]
               ELSE d,
         last_input_time |-> IF skip THEN lit ELSE us,
         triggered |-> ~skip]

input_event(t, pol, d, lit, us) ==
    LET skip == us - lit < t.input_boost_us \/ pol.cur >= t.input_boost_freq
    IN  [standby |-> FALSE,
         delay |-> t.sampling_rate,
         d |-> IF t._oc_limit # 0
               THEN [d EXCEPT !.oc_boost_cycles =
                                  uint_val(uint_mul(uint(t._oc_limit), 2))]
               ELSE d,
         last_input_time |-> us,
         triggered |-> ~skip]

input_event_commit(ev) ==
    /\ standby' = ev.standby
    /\ delay' = ev.delay
    /\ dbs' = ev.d
    /\ last_input_time' = ev.last_input_time
    /\ tk' = [kind |-> "input", triggered |-> ev.triggered,
              was_standby |-> standby, was_suspend |-> suspend,
              was_boosted |-> is_boosted(tuners, last_input_time, ktime_us)]
    /\ UNCHANGED <<tuners, policy, suspend, now, num_hist, usage, rq_data,
                   rq_work, cpu_online, up_work, down_work, suspend_work,
                   resume_work, qual_run,
                   rq_drained>>

\* the handler as one step: a pending tick that is cancelled is queued at once
hotplug_input_event ==
    /\ input_event_commit(input_event(tuners, policy, dbs, last_input_time, ktime_us))
    /\ UNCHANGED <<dwork, input_pc, dbs_check>>

(***************************************************************************)
(* hotplug_input_event() in two steps: up to __cancel_delayed_work(),      *)
(* which succeeds when it deletes a pending timer and then clears the      *)
(* pending bit, and queue_work_on(), which queues the work unless it is    *)
(* pending.                                                                *)
(***************************************************************************)
\* the handler queueing the work whatever the cancel returned
hotplug_input_event_cancel_ignored ==
    \E ev \in {input_event(tuners, policy, dbs, last_input_time, ktime_us)} :
        /\ input_pc = "idle"
        /\ input_event_commit(ev)
        /\ dwork' = IF ev.triggered THEN [dwork EXCEPT !.timer = FALSE] ELSE dwork
        /\ input_pc' = IF ev.triggered THEN "cancelled" ELSE "idle"
        /\ UNCHANGED dbs_check

hotplug_input_event_cancel ==
    \E ev \in {input_event(tuners, policy, dbs, last_input_time, ktime_us)} :
        /\ input_pc = "idle"
        /\ input_event_commit(ev)
        /\ dwork' = IF ev.triggered /\ dwork.timer
                     THEN [dwork EXCEPT !.timer = FALSE] ELSE dwork
        /\ input_pc' = IF ev.triggered /\ dwork.timer THEN "cancelled" ELSE "idle"
        /\ UNCHANGED dbs_check

hotplug_input_event_queue ==
    /\ input_pc = "cancelled"
    /\ input_pc' = "idle"
    /\ dwork' = [dwork EXCEPT !.queued = IF dwork.timer \/ dwork.queued
                                         THEN @ ELSE TRUE]
    /\ UNCHANGED <<tuners, policy, dbs, suspend, standby, delay,
                   last_input_time, now, num_hist, usage, rq_data, rq_work,
                   cpu_online, up_work, down_work, suspend_work, resume_work,
                   tk, qual_run, rq_drained, dbs_check>>

(***************************************************************************)
(* rq_work_fn(): one tick of the run-queue average tracker at cur_time     *)
(* (ns), nr_running() being nr.  rq_average() is the tracker state the     *)
(* function leaves.                                                        *)
(***************************************************************************)
rq_average(rq, nr, cur_time) ==
    LET last      == IF rq.last_time = 0 THEN cur_time ELSE rq.last_time
        total     == IF rq.nr_run_avg = 0 THEN 0 ELSE rq.total_time
        time_diff == (cur_time - last) \div 1000000
        nr_run    == IF time_diff # 0 /\ total # 0
                     THEN (nr * 100 * time_diff + rq.nr_run_avg * total)
                              \div (total + time_diff)
                     ELSE nr * 100
    IN  [nr_run_avg |-> nr_run,
         last_time |-> cur_time,
         total_time |-> total + time_diff]

rq_work_fn(nr) ==
    /\ rq_work
    /\ rq_data' = rq_average(rq_data, nr, ktime_ns)
    /\ rq_drained' = FALSE
    /\ tk' = [kind |-> "rq", nr |-> nr, drained |-> rq_drained]
    /\ UNCHANGED <<tuners, policy, dbs, suspend, standby, delay,
                   last_input_time, now, num_hist, usage, rq_work,
                   cpu_online, up_work, down_work, suspend_work,
                   resume_work, qual_run, dwork, input_pc,
                   dbs_check>>


\* the first n members of S in ascending order
RECURSIVE FirstN(_, _)
FirstN(S, n) ==
    IF n <= 0 \/ S = {} THEN {}
    ELSE LET m == CHOOSE x \in S : \A y \in S : x <= y
         IN  {m} \cup FirstN(S \ {m}, n - 1)

(***************************************************************************)
(* cpu_up_work(): the online mask after the work ran                       *)
(***************************************************************************)
cpu_up_mask(t, mask, stb, boosted) ==
    LET online  == Cardinality(mask)
        offline == (0..(NR_CPUS - 1)) \ mask
        nr0     == IF t.min_cpu_lock # 0 THEN t.min_cpu_lock - online
                   ELSE t.up_nr_cpus
        nr_up   == IF ~stb THEN NR_CPUS - online
                   ELSE IF boosted /\ t.boost_mincpus # 0
                        THEN Max2(nr0, t.boost_mincpus - online)
                        ELSE nr0
        \* the loop stops at the cpu that finds nr_up = 0; a negative
        \* nr_up never reaches 0 within NR_CPUS iterations
        visited == IF nr_up < 0 THEN offline ELSE FirstN(offline, nr_up)
    IN  mask \cup (visited \ {0})

cpu_up_work ==
    /\ up_work
    /\ up_work' = FALSE
    /\ cpu_online' = cpu_up_mask(tuners, cpu_online, standby,
                                 is_boosted(tuners, last_input_time, ktime_us))
    /\ tk' = NoTick
    /\ UNCHANGED <<tuners, policy, dbs, suspend, standby, delay,
                   last_input_time, now, num_hist, usage, rq_data, rq_work,
                   down_work, suspend_work, resume_work, qual_run,
                   rq_drained, dwork, input_pc,
                   dbs_check>>

(***************************************************************************)
(* cpu_down_work(): the online mask after the work ran                     *)
(***************************************************************************)
\* cpu_down_work without the `if (cpu == 0) continue`
cpu_down_mask_from_first(t, mask, boosted) ==
    LET online  == Cardinality(mask)
        nr0     == online - 1
        nr_down == IF boosted /\ t.boost_mincpus # 0
                   THEN Min2(nr0, online - t.boost_mincpus) ELSE nr0
        victims == FirstN(mask, nr_down - 1)
    IN  IF nr0 <= 0 THEN mask ELSE mask \ victims

\* cpu_down_work without the limit the boost puts on nr_down
cpu_down_mask_no_boost(t, mask, boosted) ==
    LET online  == Cardinality(mask)
        nr0     == online - 1
        victims == FirstN(mask \ {0}, nr0 - 1)
    IN  IF nr0 <= 0 THEN mask ELSE mask \ victims

cpu_down_mask(t, mask, boosted) ==
    LET online  == Cardinality(mask)
        nr0     == online - 1
        nr_down == IF boosted /\ t.boost_mincpus # 0
                   THEN Min2(nr0, online - t.boost_mincpus) ELSE nr0
        \* cpu 0 is skipped; the k-th other cpu is taken down while the
        \* pre-decremented nr_down is still positive
        victims == FirstN(mask \ {0}, nr_down - 1)
    IN  IF nr0 <= 0 THEN mask ELSE mask \ victims

cpu_down_work ==
    /\ down_work
    /\ down_work' = FALSE
    /\ cpu_online' = cpu_down_mask(tuners, cpu_online,
                                   is_boosted(tuners, last_input_time, ktime_us))
    /\ tk' = NoTick
    /\ UNCHANGED <<tuners, policy, dbs, suspend, standby, delay,
                   last_input_time, now, num_hist, usage, rq_data, rq_work,
                   up_work, suspend_work, resume_work, qual_run,
                   rq_drained, dwork, input_pc,
                   dbs_check>>

(***************************************************************************)
(* pm_notifier_call(PM_SUSPEND_PREPARE) -> dbs_suspend()                   *)
(***************************************************************************)
dbs_suspend ==
    /\ ~suspend
    /\ ~resume_work
    /\ suspend_work' = TRUE
    /\ suspend' = TRUE
    /\ delay' = tuners.suspend_sampling_rate
    /\ tk' = [kind |-> "suspend", was_standby |-> standby]
    /\ UNCHANGED <<tuners, policy, dbs, standby, last_input_time, now,
                   num_hist, usage, rq_data, rq_work, cpu_online, up_work,
                   down_work, resume_work, qual_run,
                   rq_drained, dwork, input_pc,
                   dbs_check>>

(***************************************************************************)
(* cpufreq_dynamic_suspend() -> stop_rq_work()                             *)
(***************************************************************************)
cpufreq_dynamic_suspend ==
    /\ suspend_work
    /\ suspend_work' = FALSE
    /\ rq_work' = FALSE
    /\ tk' = NoTick
    /\ UNCHANGED <<tuners, policy, dbs, suspend, standby, delay,
                   last_input_time, now, num_hist, usage, rq_data, cpu_online,
                   up_work, down_work, resume_work, qual_run,
                   rq_drained, dwork, input_pc,
                   dbs_check>>

(***************************************************************************)
(* pm_notifier_call(PM_POST_SUSPEND) -> dbs_resume()                       *)
(***************************************************************************)
dbs_resume ==
    /\ suspend
    /\ ~resume_work
    /\ resume_work' = TRUE
    /\ tk' = NoTick
    /\ UNCHANGED <<tuners, policy, dbs, suspend, standby, delay,
                   last_input_time, now, num_hist, usage, rq_data, rq_work,
                   cpu_online, up_work, down_work, suspend_work, qual_run,
                   rq_drained, dwork, input_pc,
                   dbs_check>>

(***************************************************************************)
(* cpufreq_dynamic_resume() with start_rq_work()                           *)
(***************************************************************************)
\* cpufreq_dynamic_resume without `standby = false`
cpufreq_dynamic_resume_keep_standby ==
    LET cm == commit(tuners, policy, dbs, policy.max, "H")
    IN  /\ resume_work
        /\ resume_work' = FALSE
        /\ suspend' = FALSE
        /\ delay' = tuners.sampling_rate
        /\ last_input_time' = ktime_us
        /\ policy' = cm.pol
        /\ dbs' = [cm.d EXCEPT !.requested_freq = policy.max]
        /\ rq_data' = [nr_run_avg |-> 0, last_time |-> 0, total_time |-> 0]
        /\ rq_work' = TRUE
        /\ tk' = [kind |-> "resume", was_standby |-> standby]
        /\ UNCHANGED <<tuners, standby, now, num_hist, usage, cpu_online,
                       up_work, down_work, suspend_work, qual_run, rq_drained, dwork, input_pc,
                   dbs_check>>

cpufreq_dynamic_resume ==
    LET cm == commit(tuners, policy, dbs, policy.max, "H")
    IN  /\ resume_work
        /\ resume_work' = FALSE
        /\ suspend' = FALSE
        /\ standby' = FALSE
        /\ delay' = tuners.sampling_rate
        /\ last_input_time' = ktime_us
        /\ policy' = cm.pol
        /\ dbs' = [cm.d EXCEPT !.requested_freq = policy.max]
        /\ rq_data' = [nr_run_avg |-> 0, last_time |-> 0, total_time |-> 0]
        /\ rq_work' = TRUE
        /\ tk' = [kind |-> "resume", was_standby |-> standby]
        /\ UNCHANGED <<tuners, now, num_hist, usage, cpu_online, up_work,
                       down_work, suspend_work, qual_run,
                   rq_drained, dwork, input_pc,
                   dbs_check>>

(***************************************************************************)
(* The sysfs store functions.  A store returns -EINVAL ("EINVAL") or the   *)
(* byte count of the write ("count"); tk records which.  The input is the  *)
(* unsigned value sscanf("%u") parsed.                                     *)
(***************************************************************************)
Stored(ret) == [kind |-> "store", ret |-> ret]

\* recalculate_down_threshold_all() for the governed cpu
recalculate_down_threshold_all(t, pol, d) ==
    [d EXCEPT !.down_threshold = recalculate_down_threshold(t, d.freq_lo, pol.cur)]

\* store_up_threshold with the test against down_differential left out
store_up_threshold_unchecked(input) ==
    LET ok == input <= 100
        t1 == [tuners EXCEPT !.up_threshold = input]
    IN  /\ tuners' = IF ok THEN t1 ELSE tuners
        /\ dbs' = IF ok THEN recalculate_down_threshold_all(t1, policy, dbs) ELSE dbs
        /\ tk' = Stored(IF ok THEN "count" ELSE "EINVAL")
        /\ UNCHANGED <<policy, suspend, standby, delay, last_input_time, now,
                       num_hist, usage, rq_data, rq_work, cpu_online, up_work,
                       down_work, suspend_work, resume_work, qual_run,
                       rq_drained, dwork, input_pc,
                   dbs_check>>

(***************************************************************************)
(* store_up_threshold(): __store_int(up_threshold, up_threshold,           *)
(*   down_differential < input && input <= 100, input,                     *)
(*   recalculate_down_threshold_all())                                     *)
(***************************************************************************)
store_up_threshold(input) ==
    LET ok == tuners.down_differential < input /\ input <= 100
        t1 == [tuners EXCEPT !.up_threshold = input]
    IN  /\ tuners' = IF ok THEN t1 ELSE tuners
        /\ dbs' = IF ok THEN recalculate_down_threshold_all(t1, policy, dbs) ELSE dbs
        /\ tk' = Stored(IF ok THEN "count" ELSE "EINVAL")
        /\ UNCHANGED <<policy, suspend, standby, delay, last_input_time, now,
                       num_hist, usage, rq_data, rq_work, cpu_online, up_work,
                       down_work, suspend_work, resume_work, qual_run,
                       rq_drained, dwork, input_pc,
                   dbs_check>>

(***************************************************************************)
(* store_suspend_sampling_rate() and store_standby_sampling_rate():        *)
(*   __store_int(x, x, input >= min_sampling_rate,                         *)
(*     usecs_to_jiffies(max(input, min_sampling_rate)),                    *)
(*     if (suspend) / if (standby) delay = dbs_tuners_ins.x)               *)
(***************************************************************************)
store_suspend_sampling_rate(input) ==
    LET ok == input >= min_sampling_rate
        t1 == [tuners EXCEPT !.suspend_sampling_rate =
                                 usecs_to_jiffies(Max2(input, min_sampling_rate))]
    IN  /\ tuners' = IF ok THEN t1 ELSE tuners
        /\ delay' = IF ok /\ suspend THEN t1.suspend_sampling_rate ELSE delay
        /\ tk' = Stored(IF ok THEN "count" ELSE "EINVAL")
        /\ UNCHANGED <<policy, dbs, suspend, standby, last_input_time, now,
                       num_hist, usage, rq_data, rq_work, cpu_online, up_work,
                       down_work, suspend_work, resume_work, qual_run,
                       rq_drained, dwork, input_pc, dbs_check>>

store_sampling_rate(input) ==
    LET ok == input >= min_sampling_rate
        t1 == [tuners EXCEPT !.sampling_rate =
                                 usecs_to_jiffies(Max2(input, min_sampling_rate))]
    IN  /\ tuners' = IF ok THEN t1 ELSE tuners
        /\ delay' = IF ok /\ ~(standby \/ suspend) THEN t1.sampling_rate
                     ELSE delay
        /\ tk' = Stored(IF ok THEN "count" ELSE "EINVAL")
        /\ UNCHANGED <<policy, dbs, suspend, standby, last_input_time, now,
                       num_hist, usage, rq_data, rq_work, cpu_online, up_work,
                       down_work, suspend_work, resume_work, qual_run,
                       rq_drained, dwork, input_pc, dbs_check>>

\* module_param(delay, uint, 0644): a write to the module parameter stores
\* the number in delay
param_set_delay(input) ==
    /\ delay' = input
    /\ tk' = NoTick
    /\ UNCHANGED <<tuners, policy, dbs, suspend, standby, last_input_time,
                   now, num_hist, usage, rq_data, rq_work, cpu_online,
                   up_work, down_work, suspend_work, resume_work, qual_run,
                   rq_drained, dwork, input_pc, dbs_check>>

\* store_oc_freq_boost_ms(): __store_int(oc_freq_boost_ms, oc_freq_boost_ms,
\*   true, input, recalculate_freq_limits()): every unsigned int is accepted
store_oc_freq_boost_ms(input) ==
    /\ tuners' = recalculate_freq_limits(
                      [tuners EXCEPT !.oc_freq_boost_ms = input], policy)
    /\ tk' = Stored("count")
    /\ UNCHANGED <<policy, dbs, suspend, standby, delay, last_input_time, now,
                   num_hist, usage, rq_data, rq_work, cpu_online, up_work,
                   down_work, suspend_work, resume_work, qual_run,
                   rq_drained, dwork, input_pc, dbs_check>>

store_standby_sampling_rate(input) ==
    LET ok == input >= min_sampling_rate
        t1 == [tuners EXCEPT !.standby_sampling_rate =
                                 usecs_to_jiffies(Max2(input, min_sampling_rate))]
    IN  /\ tuners' = IF ok THEN t1 ELSE tuners
        /\ delay' = IF ok /\ standby THEN t1.standby_sampling_rate ELSE delay
        /\ tk' = Stored(IF ok THEN "count" ELSE "EINVAL")
        /\ UNCHANGED <<policy, dbs, suspend, standby, last_input_time, now,
                       num_hist, usage, rq_data, rq_work, cpu_online, up_work,
                       down_work, suspend_work, resume_work, qual_run,
                       rq_drained, dwork, input_pc, dbs_check>>

(***************************************************************************)
(* store_down_differential(): __store_int(down_differential,               *)
(*   down_differential, 0 < input && input < up_threshold, input,          *)
(*   recalculate_down_threshold_all())                                     *)
(***************************************************************************)
store_down_differential(input) ==
    LET ok == 0 < input /\ input < tuners.up_threshold
        t1 == [tuners EXCEPT !.down_differential = input]
    IN  /\ tuners' = IF ok THEN t1 ELSE tuners
        /\ dbs' = IF ok THEN recalculate_down_threshold_all(t1, policy, dbs) ELSE dbs
        /\ tk' = Stored(IF ok THEN "count" ELSE "EINVAL")
        /\ UNCHANGED <<policy, suspend, standby, delay, last_input_time, now,
                       num_hist, usage, rq_data, rq_work, cpu_online, up_work,
                       down_work, suspend_work, resume_work, qual_run,
                       rq_drained, dwork, input_pc,
                   dbs_check>>

(***************************************************************************)
(* store_cpu_up_rate(), store_cpu_down_rate()                              *)
(***************************************************************************)
store_cpu_up_rate(input) ==
    /\ tuners' = [tuners EXCEPT !.cpu_up_rate = Min2(input, MAX_HOTPLUG_RATE)]
    /\ tk' = Stored("count")
    /\ UNCHANGED <<policy, dbs, suspend, standby, delay, last_input_time, now,
                   num_hist, usage, rq_data, rq_work, cpu_online, up_work,
                   down_work, suspend_work, resume_work, qual_run,
                   rq_drained, dwork, input_pc,
                   dbs_check>>

store_cpu_down_rate(input) ==
    /\ tuners' = [tuners EXCEPT !.cpu_down_rate = Min2(input, MAX_HOTPLUG_RATE)]
    /\ tk' = Stored("count")
    /\ UNCHANGED <<policy, dbs, suspend, standby, delay, last_input_time, now,
                   num_hist, usage, rq_data, rq_work, cpu_online, up_work,
                   down_work, suspend_work, resume_work, qual_run,
                   rq_drained, dwork, input_pc,
                   dbs_check>>

(***************************************************************************)
(* store_max_cpu_lock()                                                    *)
(***************************************************************************)
store_max_cpu_lock(input) ==
    /\ tuners' = [tuners EXCEPT !.max_cpu_lock = Min2(input, NR_CPUS)]
    /\ tk' = Stored("count")
    /\ UNCHANGED <<policy, dbs, suspend, standby, delay, last_input_time, now,
                   num_hist, usage, rq_data, rq_work, cpu_online, up_work,
                   down_work, suspend_work, resume_work, qual_run,
                   rq_drained, dwork, input_pc,
                   dbs_check>>

(***************************************************************************)
(* store_min_cpu_lock(): cpufreq_dynamic_min_cpu_unlock() for 0,           *)
(* cpufreq_dynamic_min_cpu_lock(input) otherwise                           *)
(***************************************************************************)
store_min_cpu_lock(input) ==
    LET online == Cardinality(cpu_online)
    IN  /\ tuners' = [tuners EXCEPT !.min_cpu_lock =
                          IF input = 0 THEN 0 ELSE Min2(input, NR_CPUS)]
        /\ up_work' = (up_work \/ (input # 0 /\ input - online > 0))
        /\ down_work' = (down_work \/ (input = 0 /\ ~suspend))
        /\ tk' = Stored("count")
        /\ UNCHANGED <<policy, dbs, suspend, standby, delay, last_input_time,
                       now, num_hist, usage, rq_data, rq_work, cpu_online,
                       suspend_work, resume_work, qual_run,
                   rq_drained, dwork, input_pc,
                   dbs_check>>

(***************************************************************************)
(* store_boost_mincpus()                                                   *)
(***************************************************************************)
store_boost_mincpus(input) ==
    /\ tuners' = [tuners EXCEPT !.boost_mincpus = Min2(input, 4)]
    /\ tk' = Stored("count")
    /\ UNCHANGED <<policy, dbs, suspend, standby, delay, last_input_time, now,
                   num_hist, usage, rq_data, rq_work, cpu_online, up_work,
                   down_work, suspend_work, resume_work, qual_run,
                   rq_drained, dwork, input_pc,
                   dbs_check>>

(***************************************************************************)
(* cpufreq_governor_dbs(CPUFREQ_GOV_LIMITS) after the core set the new     *)
(* policy->min and policy->max                                             *)
(***************************************************************************)
gov_limits(lim) ==
    LET pol0 == [policy EXCEPT !.min = lim[1], !.max = lim[2]]
        over  == pol0.max < pol0.cur
        under == ~over /\ pol0.min > pol0.cur
        cm   == IF over THEN commit(tuners, pol0, dbs, pol0.max, "H")
                ELSE IF under THEN commit(tuners, pol0, dbs, pol0.min, "L")
                ELSE [pol |-> pol0, d |-> dbs]
    IN  /\ <<policy.min, policy.max>> # lim
        /\ policy' = cm.pol
        /\ dbs' = IF over THEN [cm.d EXCEPT !.requested_freq = pol0.max]
                  ELSE IF under THEN [cm.d EXCEPT !.requested_freq = pol0.min]
                  ELSE cm.d
        /\ tuners' = recalculate_freq_limits(tuners, pol0)
        /\ tk' = NoTick
        /\ UNCHANGED <<suspend, standby, delay, last_input_time, now, num_hist,
                       usage, rq_data, rq_work, cpu_online, up_work, down_work,
                       suspend_work, resume_work, qual_run,
                   rq_drained, dwork, input_pc,
                   dbs_check>>

(***************************************************************************)
(* A frequency transition the governor did not ask for, reported to        *)
(* dbs_cpufreq_notifier().                                                 *)
(***************************************************************************)
freq_transition(new) ==
    LET pol1 == [policy EXCEPT !.cur = new]
    IN  /\ new # policy.cur
        /\ new >= policy.min /\ new <= policy.max
        /\ policy' = pol1
        /\ dbs' = dbs_cpufreq_notifier(tuners, pol1, dbs, new)
        /\ tk' = NoTick
        /\ UNCHANGED <<tuners, suspend, standby, delay, last_input_time, now,
                       num_hist, usage, rq_data, rq_work, cpu_online, up_work,
                       down_work, suspend_work, resume_work, qual_run,
                   rq_drained, dwork, input_pc,
                   dbs_check>>

\* the clock advances by one millisecond, up to `limit`
advance_time(limit) ==
    /\ now < limit
    /\ now' = now + 1
    /\ tk' = NoTick
    /\ UNCHANGED <<tuners, policy, dbs, suspend, standby, delay,
                   last_input_time, num_hist, usage, rq_data, rq_work,
                   cpu_online, up_work, down_work, suspend_work, resume_work,
                   qual_run, rq_drained, dwork, input_pc,
                   dbs_check>>

(***************************************************************************)
(* Specifications                                                          *)
(***************************************************************************)
\* policy limits the cpufreq core may set
LimitChoices == { <<200000, 1000000>>, <<200000, 800000>>, <<900000, 1000000>> }
TransitionChoices == {800000}
NrRunningChoices == {0, MaxNrRunning}
\* a cpu sampled twice in the same jiffy reports wall_time 0 and is skipped
Skipped == { [wall |-> 0, idle |-> 0] }
\* a cpu that was 30% busy or fully busy over the sampling period
IdleOrBusy == { [wall |-> 10000, idle |-> 7000], [wall |-> 10000, idle |-> 0] }
AllCpus == 0..(NR_CPUS - 1)

(***************************************************************************)
(* Spec: the frequency engine with the power modes, input events, policy   *)
(* limit changes and out-of-band transitions.  Hotplug rates are 1, all    *)
(* cores are online.                                                       *)
(***************************************************************************)
Init ==
    \E oc_ms \in {0, 1} :
        InitWith(ConfiguredTuners(1, 1, 1, oc_ms, 2), CpuinfoMaxFreq, AllCpus)

Next ==
    \/ do_dbs_timer(SampleSet, Skipped)
    \/ hotplug_input_event
    \/ dbs_suspend
    \/ cpufreq_dynamic_suspend
    \/ dbs_resume
    \/ cpufreq_dynamic_resume
    \/ \E lim \in LimitChoices : gov_limits(lim)
    \/ \E new \in TransitionChoices : freq_transition(new)
    \/ advance_time(MaxTime)

Spec == Init /\ [][Next]_vars

(***************************************************************************)
(* SpecHotplug: the hotplug checks and works with the run-queue tracker    *)
(* and the core locks.  No input boost and no overclock credit are         *)
(* configured; the history holds at most two samples.                      *)
(***************************************************************************)
RateChoices == { <<2, 1>> }
LockChoices == {0, 2}
OnlineChoices == { {0}, {0, 1, 2} }

InitHotplug ==
    \E r \in RateChoices : \E online \in OnlineChoices :
        InitWith(ConfiguredTuners(r[1], r[2], 0, 0, 1), CpuinfoMinFreq, online)

NextHotplug ==
    \/ do_dbs_timer(IdleOrBusy, Skipped)
    \/ \E nr \in NrRunningChoices : rq_work_fn(nr)
    \/ cpu_up_work
    \/ cpu_down_work
    \/ \E input \in LockChoices : store_min_cpu_lock(input)
    \/ \E input \in LockChoices : store_max_cpu_lock(input)

SpecHotplug == InitHotplug /\ [][NextHotplug]_vars

(***************************************************************************)
(* SpecHistory: the hotplug history under a steady load while the hotplug  *)
(* rates are rewritten between ticks.  All cores are online and the        *)
(* default min_cpu_lock holds them, so that the count is driven by the     *)
(* pushes and the rates alone.                                             *)
(***************************************************************************)
Steady == { [wall |-> 10000, idle |-> 4000] }

InitHistory ==
    InitWith(ConfiguredTuners(MaxRateInput, MaxRateInput, 0, 0, 1),
             CpuinfoMaxFreq, AllCpus)

NextHistory ==
    \/ do_dbs_timer(Steady, Skipped)
    \/ \E input \in 0..MaxRateInput : store_cpu_up_rate(input)
    \/ \E input \in 0..MaxRateInput : store_cpu_down_rate(input)

SpecHistory == InitHistory /\ [][NextHistory]_vars

(***************************************************************************)
(* SpecTracker: the run-queue average tracker against the decision tick    *)
(* that drains it, over MaxTrackerTime milliseconds.                       *)
(***************************************************************************)
InitTracker ==
    InitWith(ConfiguredTuners(1, 1, 0, 0, 1), CpuinfoMaxFreq, AllCpus)

NextTracker ==
    \/ do_dbs_timer(Steady, Skipped)
    \/ \E nr \in 0..MaxNrRunning : rq_work_fn(nr)
    \/ advance_time(MaxTrackerTime)

SpecTracker == InitTracker /\ [][NextTracker]_vars

(***************************************************************************)
(* SpecLock: the minimum-core lock against the ticks and the hotplug       *)
(* works.  The timer re-arms itself at the end of every tick and the       *)
(* workqueue runs every queued work, hence the weak fairness of the tick   *)
(* and of the two works; the sysfs writes are not fair.                    *)
(***************************************************************************)
LockFloorChoices == {0, 3}

InitLock ==
    \E online \in OnlineChoices :
        InitWith(ConfiguredTuners(1, 1, 0, 0, 1), CpuinfoMinFreq, online)

NextLock ==
    \/ do_dbs_timer(IdleOrBusy, Skipped)
    \/ \E nr \in NrRunningChoices : rq_work_fn(nr)
    \/ cpu_up_work
    \/ cpu_down_work
    \/ \E input \in LockFloorChoices : store_min_cpu_lock(input)
    \/ \E input \in LockFloorChoices : store_max_cpu_lock(input)

SpecLock ==
    /\ InitLock /\ [][NextLock]_vars
    /\ WF_vars(do_dbs_timer(IdleOrBusy, Skipped))
    /\ WF_vars(cpu_up_work)
    /\ WF_vars(cpu_down_work)

(***************************************************************************)
(* SpecCredit: the overclock credit with an overclock window configured    *)
(* (oc_freq_boost_ms = 1, _oc_limit = 400), both cpus of the policy        *)
(* sampled, input events topping the credit up, Standby entered by the     *)
(* ticks and Suspend entered by the suspend notification.                  *)
(***************************************************************************)
InitCredit ==
    InitWith(ConfiguredTuners(1, 1, 1, 1, 2), CpuinfoMaxFreq, AllCpus)

NextCredit ==
    \/ do_dbs_timer(SampleSet, IdleOrBusy \cup Skipped)
    \/ hotplug_input_event
    \/ dbs_suspend
    \/ \E lim \in LimitChoices : gov_limits(lim)
    \/ advance_time(MaxTime)

SpecCredit == InitCredit /\ [][NextCredit]_vars

(***************************************************************************)
(* SpecConfig: the sysfs writes against the ticks, on a platform with or   *)
(* without idle micro-accounting.  Every store is written values inside    *)
(* and outside the range of its tunable.  All cores are online and the     *)
(* load is steady.                                                         *)
(***************************************************************************)
ThresholdChoices == {0, 5, 50, 100, 101}
RateWrites == {1, MAX_HOTPLUG_RATE + 1}
LockWrites == {0, NR_CPUS + 1}

InitConfig ==
    \/ InitWith(ConfiguredTuners(1, 1, 0, 0, 1), CpuinfoMaxFreq, AllCpus)
    \/ InitIdleMicro(ConfiguredTuners(1, 1, 0, 0, 1), CpuinfoMaxFreq, AllCpus)

NextConfig ==
    \/ do_dbs_timer(Steady, Skipped)
    \/ \E input \in ThresholdChoices : store_up_threshold(input)
    \/ \E input \in ThresholdChoices : store_down_differential(input)
    \/ \E input \in RateWrites : store_cpu_up_rate(input)
    \/ \E input \in RateWrites : store_cpu_down_rate(input)
    \/ \E input \in LockWrites : store_max_cpu_lock(input)
    \/ \E input \in LockWrites : store_boost_mincpus(input)

SpecConfig == InitConfig /\ [][NextConfig]_vars

(***************************************************************************)
(* SpecBoost: the hotplug checks and works while input events boost the    *)
(* governor (input_boost_ms = 1) and boost_mincpus is written; the clock   *)
(* runs so that a boost expires.                                           *)
(***************************************************************************)
BoostFloorChoices == {0, 2, 3}
UnlockChoices == {0}

InitBoost ==
    \E online \in OnlineChoices :
        InitWith(ConfiguredTuners(1, 1, 1, 0, 1), CpuinfoMinFreq, online)

NextBoost ==
    \/ do_dbs_timer(IdleOrBusy, Skipped)
    \/ hotplug_input_event
    \/ cpu_up_work
    \/ cpu_down_work
    \/ \E input \in BoostFloorChoices : store_boost_mincpus(input)
    \/ \E input \in UnlockChoices : store_min_cpu_lock(input)
    \/ \E input \in LockChoices : store_max_cpu_lock(input)
    \/ advance_time(MaxTime)

SpecBoost == InitBoost /\ [][NextBoost]_vars

(***************************************************************************)
(* SpecChecks: check_up() and check_down() as the tick calls them, on      *)
(* every combination of hotplug rates, core locks, boost floor, boost      *)
(* state, online count, history and tracker reading drawn below.  The      *)
(* history holds no sample or one sample before the tick pushes its own.   *)
(***************************************************************************)
OnlineCounts == { {0}, {0, 1}, {0, 1, 2}, AllCpus }
HistorySamples == { [freq |-> CpuinfoMinFreq, rq_avg |-> 0],
                    [freq |-> CpuinfoMaxFreq, rq_avg |-> 100 * MaxNrRunning] }
EmptyHistory == [i \in 0..(MAX_HOTPLUG_RATE - 1) |-> [freq |-> 0, rq_avg |-> 0]]
Histories ==
    { [nh |-> 0, us |-> EmptyHistory] }
    \cup { [nh |-> 1, us |-> [EmptyHistory EXCEPT ![0] = smp]] : smp \in HistorySamples }

InitChecks ==
    \E up_rate \in 0..MaxRateInput, down_rate \in 0..MaxRateInput,
       maxl \in LockChoices, minl \in LockFloorChoices, floor \in LockChoices,
       online \in OnlineCounts, h \in Histories,
       cur \in {CpuinfoMinFreq, CpuinfoMaxFreq}, nr \in NrRunningChoices,
       lit \in {0, 1000} :
        LET pol == [min |-> CpuinfoMinFreq, max |-> CpuinfoMaxFreq, cur |-> cur]
            t0  == [ConfiguredTuners(up_rate, down_rate, 1, 0, 1) EXCEPT
                        !.max_cpu_lock = maxl,
                        !.min_cpu_lock = minl,
                        !.boost_mincpus = floor]
        IN  InitAt(gov_start_tuners(t0, pol), pol, online, h.nh, h.us,
                   rq_average([nr_run_avg |-> 0, last_time |-> 0, total_time |-> 0],
                              nr, 1000000),
                   lit)

NextChecks == do_dbs_timer(Steady, Skipped)

SpecChecks == InitChecks /\ [][NextChecks]_vars

(***************************************************************************)
(* SpecPower: the power modes.  Ticks enter Standby, the pm notifier       *)
(* enters and leaves Suspend through its two works, input events return    *)
(* to Active, the run-queue tracker runs while it is started, and the      *)
(* cpufreq core changes the policy limits.                                 *)
(***************************************************************************)
\* the run queue the tracker observes while it runs
Loaded == {MaxNrRunning}
\* the policy limits: the full range, or the maximum lowered
PowerLimits == { <<200000, 1000000>>, <<200000, 800000>> }

InitPower ==
    InitWith(ConfiguredTuners(1, 1, 1, 0, 2), CpuinfoMaxFreq, AllCpus)

NextPower ==
    \/ do_dbs_timer(IdleOrBusy, Skipped)
    \/ hotplug_input_event
    \/ dbs_suspend
    \/ cpufreq_dynamic_suspend
    \/ dbs_resume
    \/ cpufreq_dynamic_resume
    \/ \E nr \in Loaded : rq_work_fn(nr)
    \/ \E lim \in PowerLimits : gov_limits(lim)
    \/ advance_time(MaxTime)

SpecPower == InitPower /\ [][NextPower]_vars

(***************************************************************************)
(* SpecTimer: the decision tick as a delayed work on dbs_wq against the    *)
(* input events that cancel and queue it and the suspend notification.     *)
(***************************************************************************)
InitTimer ==
    InitWith(ConfiguredTuners(1, 1, 1, 0, 2), CpuinfoMinFreq, AllCpus)

NextTimer ==
    \/ delayed_work_timer_fn
    \/ worker_start
    \/ do_dbs_timer_run(IdleOrBusy, Skipped)
    \/ hotplug_input_event_cancel
    \/ hotplug_input_event_queue
    \/ dbs_suspend
    \/ cpufreq_dynamic_suspend
    \/ advance_time(MaxTime)

SpecTimer == InitTimer /\ [][NextTimer]_vars

(***************************************************************************)
(* SpecMutex: the decision tick in the steps of the workqueue and of       *)
(* dbs_check_cpu(), against the handlers that take no lock: the input      *)
(* event, the suspend and resume handlers and a sysfs store.               *)
(***************************************************************************)
\* the up_threshold values written: the default and a lower one
MutexWrites == {DEF_FREQUENCY_UP_THRESHOLD, 50}

InitMutex ==
    InitWith(ConfiguredTuners(1, 1, 1, 0, 1), CpuinfoMinFreq, AllCpus)

NextMutex ==
    \/ delayed_work_timer_fn
    \/ worker_start
    \/ dbs_check_cpu_enter
    \/ dbs_check_cpu_rest(IdleOrBusy, Skipped)
    \/ hotplug_input_event_cancel
    \/ hotplug_input_event_queue
    \/ dbs_suspend
    \/ cpufreq_dynamic_suspend
    \/ dbs_resume
    \/ cpufreq_dynamic_resume
    \/ \E input \in MutexWrites : store_up_threshold(input)
    \/ advance_time(MaxTime)

SpecMutex == InitMutex /\ [][NextMutex]_vars

(***************************************************************************)
(* SpecRates: the modes with sampling periods that differ: the Standby and *)
(* Suspend periods are written through sysfs, Standby is entered after two *)
(* qualifying ticks.                                                       *)
(***************************************************************************)
\* the periods written, microseconds: twice and three times the minimum
StandbyRateWrites == {2 * min_sampling_rate}
SuspendRateWrites == {3 * min_sampling_rate}

InitRates ==
    InitWith(ConfiguredTuners(1, 1, 1, 0, 2), CpuinfoMinFreq, AllCpus)

NextRates ==
    \/ do_dbs_timer(IdleOrBusy, Skipped)
    \/ hotplug_input_event
    \/ dbs_suspend
    \/ cpufreq_dynamic_suspend
    \/ dbs_resume
    \/ cpufreq_dynamic_resume
    \/ \E input \in StandbyRateWrites : store_standby_sampling_rate(input)
    \/ \E input \in SuspendRateWrites : store_suspend_sampling_rate(input)
    \/ advance_time(MaxTime)

SpecRates == InitRates /\ [][NextRates]_vars

(***************************************************************************)
(* SpecThreshold: down_threshold under frequency transitions, policy limit *)
(* changes and writes of up_threshold that leave a wide or a narrow span   *)
(* above down_differential.                                                *)
(***************************************************************************)
\* up_threshold written: the default, and 15 (10 above down_differential)
SpanWrites == {DEF_FREQUENCY_UP_THRESHOLD, 15}
\* out-of-band transitions: to the policy minimum and to a middle frequency
ThresholdTransitions == {CpuinfoMinFreq, 800000}

InitThreshold ==
    InitWith(ConfiguredTuners(1, 1, 0, 0, 1), CpuinfoMaxFreq, AllCpus)

NextThreshold ==
    \/ do_dbs_timer(IdleOrBusy, Skipped)
    \/ \E new \in ThresholdTransitions : freq_transition(new)
    \/ \E lim \in PowerLimits : gov_limits(lim)
    \/ \E input \in SpanWrites : store_up_threshold(input)
    \/ advance_time(MaxTime)

SpecThreshold == InitThreshold /\ [][NextThreshold]_vars

(***************************************************************************)
(* SpecInputBoost: boosted ticks in Active and in Suspend, with and        *)
(* without an overclock window (oc_freq_boost_ms 1 or 0).                  *)
(***************************************************************************)
InitInputBoost ==
    \E oc_ms \in {0, 1} :
        InitWith(ConfiguredTuners(1, 1, 1, oc_ms, 2), CpuinfoMinFreq, AllCpus)

NextInputBoost ==
    \/ do_dbs_timer(IdleOrBusy, Skipped)
    \/ hotplug_input_event
    \/ dbs_suspend
    \/ advance_time(MaxTime)

SpecInputBoost == InitInputBoost /\ [][NextInputBoost]_vars

(***************************************************************************)
(* SpecAlign: the tick as a delayed work that fires when its timer is due  *)
(* and queues itself for the next multiple of the sampling period, against *)
(* the writes that set the period.                                         *)
(***************************************************************************)
\* sampling_rate written through sysfs (us): below the minimum, and 30 jiffies
PeriodWrites == {0, min_sampling_rate + 50000}

\* delay written through the module parameter (jiffies)
DelayWrites == {0, 3}

InitAlign ==
    InitWith(ConfiguredTuners(1, 1, 1, 0, 2), CpuinfoMinFreq, AllCpus)

NextAlign ==
    \/ delayed_work_timer_due
    \/ worker_start
    \/ do_dbs_timer_run(IdleOrBusy, Skipped)
    \/ \E input \in PeriodWrites : store_sampling_rate(input)
    \/ \E input \in DelayWrites : param_set_delay(input)
    \/ advance_time(MaxAlignTime)

SpecAlign == InitAlign /\ [][NextAlign]_vars

(***************************************************************************)
(* SpecSetters: the setters of the hotplug rates against the ticks, on two *)
(* online cores, with the write that clears the default min_cpu_lock so    *)
(* that the checks reach their window rule.                                *)
(***************************************************************************)
InitSetters ==
    InitWith(ConfiguredTuners(MaxRateInput, MaxRateInput, 0, 0, 1),
             CpuinfoMaxFreq, {0, 1})

NextSetters ==
    \/ do_dbs_timer(Steady, Skipped)
    \/ \E input \in 0..MaxRateInput : store_cpu_up_rate(input)
    \/ \E input \in 0..MaxRateInput : store_cpu_down_rate(input)
    \/ \E input \in UnlockChoices : store_min_cpu_lock(input)

SpecSetters == InitSetters /\ [][NextSetters]_vars

(***************************************************************************)
(* SpecRace: the tick in the steps of the workqueue and of dbs_check_cpu() *)
(* against the input handler alone; no tunable is written and the pm       *)
(* notifier is silent.                                                     *)
(***************************************************************************)
InitRace ==
    InitWith(ConfiguredTuners(1, 1, 1, 0, 1), CpuinfoMinFreq, AllCpus)

NextRace ==
    \/ delayed_work_timer_fn
    \/ worker_start
    \/ dbs_check_cpu_enter
    \/ dbs_check_cpu_rest(IdleOrBusy, Skipped)
    \/ hotplug_input_event_cancel
    \/ hotplug_input_event_queue
    \/ advance_time(MaxTime)

SpecRace == InitRace /\ [][NextRace]_vars

(***************************************************************************)
(* SpecOcLimit: the overclock credit limit as recalculate_freq_limits()    *)
(* computes it, for overclock windows written through sysfs and for the    *)
(* policy limits, and the top-up an input event makes from it.             *)
(***************************************************************************)
\* oc_freq_boost_ms written (ms): none, one, the last value whose product
\* with 4 cores and 100000 kHz fits an unsigned int, the next, and 2^25
OcWindowWrites == {0, 1, 10737, 10738, 33554432}

InitOcLimit ==
    InitWith(ConfiguredTuners(1, 1, 1, 0, 2), CpuinfoMaxFreq, AllCpus)

NextOcLimit ==
    \/ \E input \in OcWindowWrites : store_oc_freq_boost_ms(input)
    \/ \E lim \in LimitChoices : gov_limits(lim)
    \/ hotplug_input_event
    \/ advance_time(MaxTime)

SpecOcLimit == InitOcLimit /\ [][NextOcLimit]_vars

(***************************************************************************)
(* C1: after each decision tick the requested frequency lies within        *)
(* [policy.min, policy.max], whichever step the tick returned from.        *)
(***************************************************************************)
C1_RequestedWithinPolicy ==
    tk.kind = "tick" =>
        /\ dbs.requested_freq >= policy.min
        /\ dbs.requested_freq <= policy.max

(***************************************************************************)
(* C2: whenever a tick establishes a hard ceiling C (the suspend hard      *)
(* limit, max_non_oc_freq because the overclock credit is 0, or the pinned *)
(* ceiling of a boosted suspend tick), the requested frequency is at most  *)
(* C right after that tick, whichever step the tick returned from.         *)
(***************************************************************************)
C2_RequestedWithinHardCeiling ==
    (tk.kind = "tick" /\ tk.hard_set) => dbs.requested_freq <= tk.hard

(***************************************************************************)
(* C3: within one tick the up-check is evaluated before the down-check and *)
(* at most one of them acts: a tick never queues both the online work and  *)
(* the offline work, and the down-check is evaluated only when the         *)
(* up-check returned false.                                                *)
(***************************************************************************)
C3_Step ==
    tk'.kind = "tick" =>
        /\ ~((up_work' /\ ~up_work) /\ (down_work' /\ ~down_work))
        /\ ~(tk'.q_up /\ tk'.q_down)
        /\ tk'.dn_eval <=> ~tk'.up
        /\ tk'.q_down => (down_work' /\ ~tk'.up)
        /\ tk'.q_up => up_work'

C3_OneHotplugAction == [][C3_Step]_vars

\* a tick whose up-check returned false and whose down-check queued the
\* offline work
C3_Witness ==
    tk.kind = "tick" /\ ~tk.up /\ tk.dn_eval /\ tk.q_down /\ down_work /\ ~up_work

C5_HistoryCountBounded ==
    /\ num_hist >= 0 /\ num_hist <= MAX_HOTPLUG_RATE
    /\ tk.kind = "tick" =>
          /\ tk.push_idx >= 0 /\ tk.push_idx <= MAX_HOTPLUG_RATE - 1
          /\ usage[tk.push_idx].freq # 0
          /\ tk.pushed = Max2(tuners.cpu_up_rate, tuners.cpu_down_rate)
                => num_hist = 0

\* the tick that wraps: the history was full, so the record went to index 0
C5_Witness ==
    /\ tk.kind = "tick" /\ tk.push_idx = 0 /\ tk.pushed = 1
    /\ usage[MAX_HOTPLUG_RATE - 1].freq # 0
    /\ \A i \in 0..(MAX_HOTPLUG_RATE - 1) : usage[i].freq # 0

(***************************************************************************)
(* C6: the drain of the run-queue tracker is at-most-once.  The read of a  *)
(* tick returns the current average and zeroes it; a read with no tracker  *)
(* tick since the previous read returns 0; and the first tracker tick      *)
(* after a read starts a fresh accumulation: its average is the sample of  *)
(* that tick alone and the accumulated time restarts from 0.               *)
(***************************************************************************)
C6_Step ==
    /\ tk'.kind = "tick" =>
          /\ tk'.rq_read = rq_data.nr_run_avg
          /\ usage'[tk'.push_idx].rq_avg = rq_data.nr_run_avg
          /\ rq_data'.nr_run_avg = 0
          /\ rq_drained => tk'.rq_read = 0
    /\ (tk'.kind = "rq" /\ rq_drained) =>
          /\ rq_data'.nr_run_avg = tk'.nr * 100
          /\ rq_data'.total_time =
                 IF rq_data.last_time = 0 THEN 0
                 ELSE (now * 1000000 - rq_data.last_time) \div 1000000

C6_DrainAtMostOnce == [][C6_Step]_vars

\* a tracker tick right after a read that had drained a non-zero average
\* accumulated over a non-zero time
C6_Witness ==
    /\ tk.kind = "rq" /\ tk.drained /\ tk.nr > 0
    /\ rq_data.total_time > 0
    /\ rq_data.nr_run_avg = tk.nr * 100
    /\ \E i \in 0..(MAX_HOTPLUG_RATE - 1) : usage[i].rq_avg > 0

(***************************************************************************)
(* C7: Active -> Standby happens only on the tick that completes exactly   *)
(* standby_delay_factor consecutive qualifying ticks (Active, not boosted, *)
(* load not over the up threshold, frequency at or below the standby-entry *)
(* threshold); a tick after fewer qualifying ticks makes no transition,    *)
(* and a disqualifying tick leaves the standby counter 0 and makes no      *)
(* transition.  tk.run is the length of the run of qualifying ticks the    *)
(* tick completes, counted from the last entry or disqualifying tick.      *)
(***************************************************************************)
C7_StandbyAfterExactRun ==
    tk.kind = "tick" =>
        /\ tk.entered => (tk.qualifying /\ tk.run = tuners.standby_delay_factor)
        /\ (tk.qualifying /\ tk.run < tuners.standby_delay_factor) => ~tk.entered
        /\ ~tk.qualifying => (dbs.standby_counter = 0 /\ ~tk.entered)

(***************************************************************************)
(* C8: after an input event has been handled, whatever the prior mode and  *)
(* whether or not a boost was running, the Standby flag is clear and       *)
(* last_input_time equals the time of the event.                           *)
(***************************************************************************)
C8_InputClearsStandby ==
    tk.kind = "input" => (~standby /\ last_input_time = now * 1000)

\* an event handled while both the Standby and the Suspend flag were set
C8_Witness ==
    /\ tk.kind = "input" /\ tk.was_standby /\ tk.was_suspend
    /\ ~standby /\ last_input_time = now * 1000

(***************************************************************************)
(* C9: for a single Active core, a tick whose load exceeds up_threshold    *)
(* while the requested and current frequency are below every ceiling and   *)
(* no increase delay applies raises the frequency in that tick; and an     *)
(* Active tick whose load is not below down_threshold never lowers the     *)
(* frequency for load (only the hard-ceiling enforcement may lower it).    *)
(***************************************************************************)
C9_BelowCeilings ==
    /\ policy.cur < Min2(policy.max, tuners.max_non_oc_freq)
    /\ dbs.requested_freq < Min2(policy.max, tuners.max_non_oc_freq)
    /\ dbs.requested_freq >= policy.min

C9_NoIncreaseDelay ==
    tuners.power_optimal_freq = 0 \/ policy.cur < tuners.power_optimal_freq

C9_Step ==
    (tk'.kind = "tick" /\ is_active(suspend, standby)) =>
        /\ (tk'.over /\ C9_BelowCeilings /\ C9_NoIncreaseDelay)
               => (policy'.cur > policy.cur /\ dbs'.requested_freq > policy.cur)
        /\ (~tk'.under /\ tk'.step # "hard") => policy'.cur >= policy.cur

C9_Hysteresis == [][C9_Step]_vars

\* an Active tick over the up threshold that stepped the frequency up from
\* below power_optimal_freq
C9_Witness ==
    /\ tk.kind = "tick" /\ tk.step = "increase" /\ tk.over /\ ~tk.boosted
    /\ ~suspend /\ ~standby
    /\ policy.cur <= tuners.power_optimal_freq

(***************************************************************************)
(* C10: when min_cpu_lock is set and the online core count is below it,    *)
(* check_up() returns true whatever the history holds, whatever the        *)
(* history count and cpu_up_rate are; only "all cores online" and          *)
(* "max_cpu_lock reached" take precedence.                                 *)
(***************************************************************************)
C10_MinLockShortCircuit ==
    (/\ tk.kind = "tick"
     /\ tuners.min_cpu_lock # 0
     /\ Cardinality(cpu_online) < tuners.min_cpu_lock
     /\ Cardinality(cpu_online) # NR_CPUS
     /\ ~(tuners.max_cpu_lock # 0 /\ Cardinality(cpu_online) >= tuners.max_cpu_lock))
        => (tk.up /\ tk.up_rule = 3 /\ up_work)

\* the short-circuit taken with a count that is no multiple of cpu_up_rate
C10_Witness ==
    /\ tk.kind = "tick" /\ tk.up /\ tk.up_rule = 3
    /\ tuners.cpu_up_rate > 1 /\ tk.pushed % tuners.cpu_up_rate # 0
    /\ Cardinality(cpu_online) < tuners.min_cpu_lock

(***************************************************************************)
(* C11: with min_cpu_lock = m set, max_cpu_lock not below m and fewer than *)
(* m cores online, fair ticks and hotplug works bring the online count to  *)
(* at least m, in Active as well as in Standby.  This is the liveness half *)
(* of the claim.                                                           *)
(***************************************************************************)
C11_LockHeld ==
    /\ tuners.min_cpu_lock # 0
    /\ tuners.max_cpu_lock = 0 \/ tuners.max_cpu_lock >= tuners.min_cpu_lock

C11_EventuallyLocked ==
    (C11_LockHeld /\ Cardinality(cpu_online) < tuners.min_cpu_lock)
        ~> (~C11_LockHeld \/ Cardinality(cpu_online) >= tuners.min_cpu_lock)

(***************************************************************************)
(* C11: while the lock m is held (min_cpu_lock unchanged, max_cpu_lock not *)
(* below it) an online count of at least m stays at least m.               *)
(***************************************************************************)
C11_Step ==
    (/\ C11_LockHeld
     /\ tuners' = tuners
     /\ Cardinality(cpu_online) >= tuners.min_cpu_lock)
        => Cardinality(cpu_online') >= tuners.min_cpu_lock

C11_LockIsFloor == [][C11_Step]_vars

(***************************************************************************)
(* C12 as stated: on every tick where the current frequency exceeds        *)
(* max_non_oc_freq the credit is debited by (cur - max_non_oc_freq)/1000   *)
(* times the busy time/1000 of each sampled cpu, floored at 0; on a tick   *)
(* where it does not exceed max_non_oc_freq the credit is not debited.     *)
(* Ticks that enter Standby (and clear the credit) are left aside.         *)
(***************************************************************************)
C12_Debit(c, w) == IF c > w THEN c - w ELSE 0

\* the workload of cpu j in the tick just taken: frequency excess in MHz
\* times busy microseconds / 1000; 0 for a cpu that was not sampled
C12_Workload(j) ==
    IF j \in DOMAIN tk'.smp /\ tk'.smp[j].wall # 0
       /\ tk'.smp[j].wall >= tk'.smp[j].idle
    THEN (((policy.cur - tuners.max_non_oc_freq) \div 1000)
              * (tk'.smp[j].wall - tk'.smp[j].idle)) \div 1000
    ELSE 0

C12_Debited ==
    C12_Debit(C12_Debit(dbs.oc_boost_cycles, C12_Workload(0)), C12_Workload(1))

C12_StepAsStated ==
    (tk'.kind = "tick" /\ ~tk'.entered) =>
        /\ policy.cur > tuners.max_non_oc_freq
              => dbs'.oc_boost_cycles = C12_Debited
        /\ policy.cur <= tuners.max_non_oc_freq
              => dbs'.oc_boost_cycles = dbs.oc_boost_cycles

C12_DebitOnEveryTick == [][C12_StepAsStated]_vars

(***************************************************************************)
(* C12 amended: the debit is made on Active ticks only.  On an Active tick *)
(* with cur > max_non_oc_freq the credit is debited, cpu by cpu over the   *)
(* sampled cpus of the policy, by (cur - max_non_oc_freq)/1000 times that  *)
(* cpu's busy time/1000, each debit floored at 0; on a Standby or Suspend  *)
(* tick, and on a tick with cur <= max_non_oc_freq, it is not debited.  A  *)
(* tick that enters Standby leaves the credit 0.  The credit never goes    *)
(* below 0 and no tick raises it.                                          *)
(***************************************************************************)
C12_Step ==
    tk'.kind = "tick" =>
        /\ dbs'.oc_boost_cycles >= 0
        /\ dbs'.oc_boost_cycles <= dbs.oc_boost_cycles
        /\ dbs'.oc_boost_cycles =
              IF tk'.entered THEN 0
              ELSE IF is_active(suspend, standby)
                      /\ policy.cur > tuners.max_non_oc_freq
                   THEN C12_Debited
                   ELSE dbs.oc_boost_cycles

C12_CreditAccounting == [][C12_Step]_vars

\* a topped-up credit of 800 debited by 300 for each of the two cpus, both
\* 3000 us busy at max_non_oc_freq + 100000
C12_Witness ==
    /\ tk.kind = "tick" /\ ~tk.entered
    /\ DOMAIN tk.smp = {0, 1}
    /\ \A j \in {0, 1} : tk.smp[j] = [wall |-> 10000, idle |-> 7000]
    /\ dbs.oc_boost_cycles = (2 * tuners._oc_limit) - 600
    /\ tuners._oc_limit # 0

(***************************************************************************)
(* C13: on an Active tick with an overclock ceiling configured             *)
(* (max_non_oc_freq and oc_freq_boost_ms set) that gets past the input     *)
(* boost step, with c the credit the debit left and every ceiling limited  *)
(* to policy.max: c = 0 makes max_non_oc_freq the hard ceiling, and a      *)
(* requested frequency above it is set and commanded down to it; 0 < c <   *)
(* _oc_limit makes max_non_oc_freq the soft ceiling and leaves the hard    *)
(* ceiling at policy.max; c >= _oc_limit leaves both at policy.max.        *)
(***************************************************************************)
C13_Step ==
    (/\ tk'.kind = "tick" /\ tk'.step # "boost"
     /\ is_active(suspend, standby)
     /\ tuners.max_non_oc_freq # 0 /\ tuners.oc_freq_boost_ms # 0)
    => LET c   == tk'.credit
           cap == Min2(tuners.max_non_oc_freq, policy.max)
       IN  /\ c = 0 =>
                /\ tk'.max_freq_hard = cap
                /\ dbs.requested_freq > cap =>
                      /\ tk'.step = "hard"
                      /\ dbs'.requested_freq = cap
                      /\ policy'.cur = DriverTarget(policy, cap, "H")
           /\ (c > 0 /\ c < tuners._oc_limit) =>
                /\ tk'.max_freq_hard = policy.max
                /\ tk'.max_freq_soft = cap
           /\ c >= tuners._oc_limit =>
                /\ tk'.max_freq_hard = policy.max
                /\ tk'.max_freq_soft = policy.max

C14_SuspendCeilings ==
    (tk'.kind = "tick" /\ suspend /\ ~tk'.boosted) =>
        /\ tk'.max_freq_hard = Min2(tuners._suspend_max_freq_hard, policy.max)
        /\ tk'.step \in {"increase", "up_delay"} =>
              dbs.requested_freq < tuners._suspend_max_freq_soft

C14_Step ==
    /\ ~(suspend' /\ standby')
    /\ C14_SuspendCeilings

C14_ExactlyOneMode == [][C14_Step]_vars

(***************************************************************************)
(* C15: after initialisation and after any sequence of accepted or         *)
(* rejected writes to up_threshold and down_differential,                  *)
(* 0 < down_differential < up_threshold <= 100.                            *)
(***************************************************************************)
C15_ThresholdOrder ==
    /\ 0 < tuners.down_differential
    /\ tuners.down_differential < tuners.up_threshold
    /\ tuners.up_threshold <= 100

\* a write was rejected after both thresholds had been rewritten
C15_Witness ==
    /\ tk.kind = "store" /\ tk.ret = "EINVAL"
    /\ tuners.up_threshold = 100
    /\ tuners.down_differential = 50

(***************************************************************************)
(* C16: a store given an out-of-range value rejects it with an error and   *)
(* leaves the tunable and every other piece of state (other tunables,      *)
(* derived ceilings, down_threshold, sampling period) unchanged; for the   *)
(* threshold stores and for cpu_up_rate, cpu_down_rate, max_cpu_lock and   *)
(* boost_mincpus.                                                          *)
(***************************************************************************)
C16_Rejected ==
    /\ tk'.kind = "store" /\ tk'.ret = "EINVAL"
    /\ UNCHANGED <<tuners, policy, dbs, suspend, standby, delay,
                   last_input_time, now, num_hist, usage, rq_data, rq_work,
                   cpu_online, up_work, down_work, suspend_work, resume_work>>

\* the stores built by __store_int with a range condition
C16_StoreIntStep ==
    /\ \A input \in ThresholdChoices :
          (/\ ~(tuners.down_differential < input /\ input <= 100)
           /\ store_up_threshold(input)) => C16_Rejected
    /\ \A input \in ThresholdChoices :
          (/\ ~(0 < input /\ input < tuners.up_threshold)
           /\ store_down_differential(input)) => C16_Rejected

\* the hotplug stores, written a value above the largest one they keep
C16_HotplugStoreStep ==
    /\ \A input \in RateWrites :
          (input > MAX_HOTPLUG_RATE /\ store_cpu_up_rate(input)) => C16_Rejected
    /\ \A input \in RateWrites :
          (input > MAX_HOTPLUG_RATE /\ store_cpu_down_rate(input)) => C16_Rejected
    /\ \A input \in LockWrites :
          (input > NR_CPUS /\ store_max_cpu_lock(input)) => C16_Rejected
    /\ \A input \in LockWrites :
          (input > 4 /\ store_boost_mincpus(input)) => C16_Rejected

C16_RejectsOutOfRange == [][C16_StoreIntStep /\ C16_HotplugStoreStep]_vars

(***************************************************************************)
(* C17: core 0 is never the target of an offline action and never the      *)
(* target of an online action of the hotplug works: core 0 stays online    *)
(* in every reachable state, and whatever the online mask, the mode and    *)
(* the boost state the works are run with, cpu_down_work leaves core 0     *)
(* online if it was and cpu_up_work leaves it offline if it was.           *)
(***************************************************************************)
C17_CoreZeroUntouched ==
    /\ 0 \in cpu_online
    /\ \A mask \in SUBSET AllCpus, stb \in BOOLEAN, boosted \in BOOLEAN :
          /\ (0 \in cpu_up_mask(tuners, mask, stb, boosted)) <=> (0 \in mask)
          /\ (0 \in cpu_down_mask(tuners, mask, boosted)) <=> (0 \in mask)

\* from {0} or {0, 1, 2} online, {0, 3} is what the down work leaves after
\* the up work has brought every core online
C17_Witness ==
    /\ cpu_online = {0, 3}
    /\ ~up_work /\ ~down_work

(***************************************************************************)
(* C18: while boosted with boost_mincpus set, check_down() returns false   *)
(* whenever online <= boost_mincpus (in the tick that ran and for every    *)
(* online count and history count it could be called with), and a run of   *)
(* the down work that starts with online >= boost_mincpus ends with        *)
(* online >= boost_mincpus.                                                *)
(***************************************************************************)
C18_Boosted == is_boosted(tuners, last_input_time, ktime_us)

C18_CheckDownFalse ==
    /\ (/\ tk.kind = "tick" /\ tk.boosted
         /\ tuners.boost_mincpus # 0
         /\ Cardinality(cpu_online) <= tuners.boost_mincpus) => ~tk.dn
    /\ \A online \in 1..NR_CPUS, nh \in {0, num_hist}, rem0 \in BOOLEAN :
          (tuners.boost_mincpus # 0 /\ online <= tuners.boost_mincpus)
              => ~check_down(tuners, online, TRUE, nh, usage, rem0).ret

C18_Step ==
    /\ C18_CheckDownFalse'
    /\ (/\ cpu_down_work
         /\ C18_Boosted /\ tuners.boost_mincpus # 0
         /\ Cardinality(cpu_online) >= tuners.boost_mincpus)
        => Cardinality(cpu_online') >= tuners.boost_mincpus

C18_BoostFloor == [][C18_Step]_vars

\* {0, 2, 3} is left only by a boosted down work that started with four
\* cores online and boost_mincpus = 2
C18_Witness ==
    /\ cpu_online = {0, 2, 3}
    /\ tuners.boost_mincpus = 2
    /\ C18_Boosted
    /\ ~down_work

(***************************************************************************)
(* C19: check_up() equals the five-rule priority list: (1) all possible    *)
(* cores online -> false; (2) max_cpu_lock set and online >= it -> false;  *)
(* (3) min_cpu_lock set and online < it -> true; (4) boosted and           *)
(* boost_mincpus > online -> true; (5) otherwise true iff the count is a   *)
(* multiple of cpu_up_rate and, over exactly the last cpu_up_rate samples, *)
(* min(frequency) >= up_freq[online] and min(rq_avg) > up_rq[online]; a    *)
(* false result leaves the history count unchanged.  Stated of the call    *)
(* the tick made and of check_up() on the same arguments.                  *)
(***************************************************************************)
C19_Multiple(count, rate) == \E k \in 0..MAX_HOTPLUG_RATE : count = k * rate

C19_Last(count, rate) == (count - rate)..(count - 1)

C19_Listed(t, online, boosted, count, us) ==
    IF online = NR_CPUS THEN FALSE
    ELSE IF t.max_cpu_lock # 0 /\ online >= t.max_cpu_lock THEN FALSE
    ELSE IF t.min_cpu_lock # 0 /\ online < t.min_cpu_lock THEN TRUE
    ELSE IF boosted /\ t.boost_mincpus > online THEN TRUE
    ELSE /\ C19_Multiple(count, t.cpu_up_rate)
         /\ \A i \in C19_Last(count, t.cpu_up_rate) :
               /\ us[i].freq >= hotplug_freq[online][HOTPLUG_UP_INDEX + 1]
               /\ us[i].rq_avg > hotplug_rq[online][HOTPLUG_UP_INDEX + 1]

C19_CheckUpAsListed ==
    tk.kind = "tick" =>
        LET online == Cardinality(cpu_online)
            listed == C19_Listed(tuners, online, tk.boosted, tk.pushed, usage)
        IN  /\ tk.up = listed
            /\ \A rem0 \in BOOLEAN :
                  LET r == check_up(tuners, online, tk.boosted, tk.pushed,
                                    usage, rem0)
                  IN  /\ r.ret = listed
                      /\ ~r.ret => r.num_hist = tk.pushed

\* the same for every cpu_up_rate other than 0
C19_CheckUpNonZeroRate == tuners.cpu_up_rate # 0 => C19_CheckUpAsListed

(***************************************************************************)
(* C20: check_down() equals its priority list: boosted with                *)
(* online <= boost_mincpus -> false; online = 1 -> false; max_cpu_lock set *)
(* and online > it -> true; min_cpu_lock set and online <= it -> false;    *)
(* otherwise true iff the count is a multiple of cpu_down_rate and, over   *)
(* exactly the last cpu_down_rate samples, max(frequency) <=               *)
(* down_freq[online] and max(rq_avg) <= down_rq[online]; a false result    *)
(* leaves the history count unchanged.  Stated of the call the tick made   *)
(* (check_down() runs when check_up() returned false) and of check_down()  *)
(* on the same arguments.                                                  *)
(***************************************************************************)
C20_Listed(t, online, boosted, count, us) ==
    IF boosted /\ t.boost_mincpus # 0 /\ online <= t.boost_mincpus THEN FALSE
    ELSE IF online = 1 THEN FALSE
    ELSE IF t.max_cpu_lock # 0 /\ online > t.max_cpu_lock THEN TRUE
    ELSE IF t.min_cpu_lock # 0 /\ online <= t.min_cpu_lock THEN FALSE
    ELSE /\ \E k \in 0..MAX_HOTPLUG_RATE : count = k * t.cpu_down_rate
         /\ \A i \in (count - t.cpu_down_rate)..(count - 1) :
               /\ us[i].freq <= hotplug_freq[online][HOTPLUG_DOWN_INDEX + 1]
               /\ us[i].rq_avg <= hotplug_rq[online][HOTPLUG_DOWN_INDEX + 1]

C20_CheckDownAsListed ==
    tk.kind = "tick" =>
        LET online == Cardinality(cpu_online)
            listed == C20_Listed(tuners, online, tk.boosted, tk.pushed, usage)
        IN  /\ tk.dn_eval => tk.dn = listed
            /\ \A rem0 \in BOOLEAN :
                  LET r == check_down(tuners, online, tk.boosted, tk.pushed,
                                      usage, rem0)
                  IN  /\ r.ret = listed
                      /\ ~r.ret => r.num_hist = tk.pushed

\* the same for every cpu_down_rate other than 0
C20_CheckDownNonZeroRate == tuners.cpu_down_rate # 0 => C20_CheckDownAsListed

(***************************************************************************)
(* C21: after the resume work has run, Standby and Suspend are both clear, *)
(* the sampling period is the Active rate, the requested frequency equals  *)
(* the current policy maximum, last_input_time equals the resume time, and *)
(* the run-queue tracker is started with an empty accumulator.             *)
(***************************************************************************)
C21_AfterResume ==
    tk.kind = "resume" =>
        /\ ~suspend /\ ~standby
        /\ delay = tuners.sampling_rate
        /\ dbs.requested_freq = policy.max
        /\ last_input_time = ktime_us
        /\ rq_work
        /\ rq_data = [nr_run_avg |-> 0, last_time |-> 0, total_time |-> 0]

\* a resume from Suspend entered in Standby, under a lowered policy maximum,
\* later than the last input event
C21_Witness ==
    /\ tk.kind = "resume" /\ tk.was_standby
    /\ policy.max = 800000
    /\ now = MaxTime

(***************************************************************************)
(* C22: on a suspend notification received in Active or in Standby the     *)
(* mode becomes Suspend (the Suspend flag set, the Standby flag clear),    *)
(* the sampling period becomes the Suspend rate, and a pending delayed     *)
(* decision tick is cancelled.                                             *)
(***************************************************************************)
C22_Step ==
    dbs_suspend =>
        /\ suspend' /\ ~standby'
        /\ delay' = tuners.suspend_sampling_rate
        /\ ~dwork'.timer

C22_SuspendNotification == [][C22_Step]_vars

\* what the notification does do: the flag and the period
C22_FlagAndPeriod ==
    tk.kind = "suspend" =>
        (suspend /\ delay = tuners.suspend_sampling_rate)

(***************************************************************************)
(* C23: an input event that triggers a boost either cancels the pending    *)
(* delayed tick and queues the tick to run at once, or finds no pending    *)
(* timer (the tick is queued or running already) and queues nothing; in    *)
(* every interleaving the tick exists exactly once: on its timer, on the   *)
(* queue, running, or in the hands of the input handler between its cancel *)
(* and its queueing.  So it is never queued twice at once, never run twice *)
(* for one expiry, and the chain of ticks is never broken.                 *)
(***************************************************************************)
C23_Places ==
    {p \in {"timer", "queued", "running", "handler"} :
        \/ p = "timer" /\ dwork.timer
        \/ p = "queued" /\ dwork.queued
        \/ p = "running" /\ dwork.running
        \/ p = "handler" /\ input_pc = "cancelled"}

C23_OneTick == Cardinality(C23_Places) = 1

C23_Step ==
    /\ hotplug_input_event_cancel =>
          \/ /\ tk'.triggered /\ dwork.timer
             /\ ~dwork'.timer /\ input_pc' = "cancelled"
          \/ UNCHANGED <<dwork, input_pc>>
    /\ hotplug_input_event_queue => (~dwork.queued /\ dwork'.queued)
    /\ C23_OneTick'

C23_CancelAndFire == [][C23_Step]_vars

\* a triggering input event that found the tick running and queued nothing
C23_Witness ==
    /\ tk.kind = "input" /\ tk.triggered
    /\ dwork.running /\ ~dwork.queued /\ ~dwork.timer
    /\ input_pc = "idle"

(***************************************************************************)
(* C24: accesses to the global state are mutually exclusive: while a tick  *)
(* is inside dbs_check_cpu(), between reading the mode into its locals and *)
(* its last use of the global state, no input event, suspend, resume or    *)
(* configuration store reads or writes the mode flags, the sampling        *)
(* period, last_input_time, the tunables or the history.                   *)
(***************************************************************************)
C24_Step ==
    (dbs_check.pc = "entered" /\ dbs_check'.pc = "entered") =>
        /\ UNCHANGED <<suspend, standby, delay, last_input_time, tuners,
                       num_hist, usage>>
        /\ tk' = tk

C24_MutualExclusion == [][C24_Step]_vars

\* what the ticks alone keep: the history count never exceeds its capacity
C24_HistoryWithinCapacity == num_hist <= MAX_HOTPLUG_RATE

\* a tick that read "not boosted" before an input event and entered Standby
\* after it: Standby during the input boost
C24_TornTick ==
    /\ tk.kind = "tick" /\ tk.entered /\ standby
    /\ is_boosted(tuners, last_input_time, ktime_us)

(***************************************************************************)
(* C25: after every tick, input event, suspend and resume the sampling     *)
(* period is the one of the current mode: suspend_sampling_rate in         *)
(* Suspend, standby_sampling_rate in Standby, sampling_rate in Active.     *)
(***************************************************************************)
C25_ModeRate ==
    IF suspend THEN tuners.suspend_sampling_rate
    ELSE IF standby THEN tuners.standby_sampling_rate
    ELSE tuners.sampling_rate

C25_PeriodMatchesMode ==
    tk.kind \in {"tick", "input", "suspend", "resume"} => delay = C25_ModeRate

\* the same after the suspend and resume handlers alone, entered from Active
C25_SuspendResumeRate ==
    (tk.kind \in {"suspend", "resume"} /\ ~(suspend /\ standby)) =>
        delay = C25_ModeRate

\* a tick that leaves the mode Active with the Standby period
C25_StandbyRateBeforeStandby ==
    /\ tk.kind = "tick" /\ ~tk.entered /\ ~standby /\ ~suspend
    /\ delay = tuners.standby_sampling_rate
    /\ delay # tuners.sampling_rate

\* an input event that leaves the mode Suspend with the Active period
C25_ActiveRateInSuspend ==
    /\ tk.kind = "input" /\ suspend
    /\ delay = tuners.sampling_rate
    /\ delay # tuners.suspend_sampling_rate

(***************************************************************************)
(* C26: down_threshold is (up_threshold - down_differential) * freq_lo /   *)
(* policy->cur when that lies in [10, span] and span / 2 otherwise, for    *)
(* the current freq_lo and frequency (it is recomputed on every            *)
(* transition), and it lies in [10, span].                                 *)
(***************************************************************************)
C26_Span == tuners.up_threshold - tuners.down_differential

C26_DownThreshold ==
    /\ dbs.down_threshold =
           recalculate_down_threshold(tuners, dbs.freq_lo, policy.cur)
    /\ 10 <= dbs.down_threshold
    /\ dbs.down_threshold <= C26_Span

\* what holds: the threshold never exceeds the span
C26_WithinSpan == dbs.down_threshold <= C26_Span

\* what holds: every transition to a frequency above policy->min recomputes
C26_Step ==
    (policy'.cur # policy.cur /\ policy'.cur > policy'.min) =>
        dbs'.down_threshold =
            recalculate_down_threshold(tuners', dbs'.freq_lo, policy'.cur)

C26_RecomputedAboveMin == [][C26_Step]_vars

\* the threshold left as it was by a transition to policy->min
C26_StaleAtMin ==
    /\ policy.cur = policy.min
    /\ dbs.freq_lo = policy.min
    /\ dbs.down_threshold #
           recalculate_down_threshold(tuners, dbs.freq_lo, policy.cur)

\* half a narrow span
C26_BelowTen ==
    /\ tk = Stored("count")
    /\ C26_Span < 20
    /\ dbs.down_threshold < 10

(***************************************************************************)
(* C27: a tracker tick with elapsed time dt and accumulated time total     *)
(* (0 once the average has been drained) leaves the average                *)
(* (nr_run*100*dt + avg*total) / (total + dt) wherever total + dt > 0, and *)
(* the accumulated time total + dt; the new average lies between the old   *)
(* one and nr_run*100.                                                     *)
(***************************************************************************)
C27_Total == IF rq_data.nr_run_avg = 0 THEN 0 ELSE rq_data.total_time

C27_Dt ==
    IF rq_data.last_time = 0 THEN 0
    ELSE (ktime_ns - rq_data.last_time) \div 1000000

C27_Weighted(nr) ==
    (nr * 100 * C27_Dt + rq_data.nr_run_avg * C27_Total)
        \div (C27_Total + C27_Dt)

C27_Between(x, a, b) == Min2(a, b) <= x /\ x <= Max2(a, b)

C27_Step ==
    tk'.kind = "rq" =>
        /\ C27_Total + C27_Dt > 0 =>
               rq_data'.nr_run_avg = C27_Weighted(tk'.nr)
        /\ rq_data'.total_time = C27_Total + C27_Dt
        /\ C27_Between(rq_data'.nr_run_avg,
                       IF C27_Total = 0 THEN tk'.nr * 100
                       ELSE rq_data.nr_run_avg, tk'.nr * 100)

C27_StepElapsed ==
    (tk'.kind = "rq" /\ (C27_Dt > 0 \/ C27_Total = 0)) => C27_Step

C27_WeightedAverageElapsed == [][C27_StepElapsed]_vars

\* what holds: the new average lies between the old one and nr_run*100
C27_StepBetween ==
    tk'.kind = "rq" =>
        C27_Between(rq_data'.nr_run_avg, rq_data.nr_run_avg, tk'.nr * 100)

C27_AverageBetween == [][C27_StepBetween]_vars

\* a tick in the millisecond of the previous one that replaced a different
\* average accumulated over a non-zero time
C27_SameMillisecond ==
    /\ tk.kind = "rq" /\ ~tk.drained
    /\ rq_data.total_time > 0
    /\ rq_data.last_time = ktime_ns
    /\ rq_data.nr_run_avg = tk.nr * 100

(***************************************************************************)
(* C28: in Suspend, in Standby and in Active at or above                   *)
(* power_optimal_freq the increase is delayed: a tick over the threshold   *)
(* of its mode raises the frequency only when it completes the up factor   *)
(* of the mode, to the table entry above policy->cur limited to            *)
(* policy->max; a tick that stays short of the factor adds one to          *)
(* sampling_up_counter and changes no frequency; a tick that is not over   *)
(* the threshold resets the counter to 0.                                  *)
(***************************************************************************)
\* max_load of the samples of a tick
C28_MaxLoad(smp) ==
    load_loop(DOMAIN smp, smp, 0, [max_load |-> 0, credit |-> 0]).max_load

\* the tick was over the threshold of the mode it ran in
C28_Over ==
    C28_MaxLoad(tk'.smp) >
        (IF is_active(suspend, standby) THEN tuners.up_threshold ELSE 99)

C28_Delayed ==
    \/ suspend
    \/ standby
    \/ tuners.power_optimal_freq # 0 /\ policy.cur >= tuners.power_optimal_freq

C28_UpFactor ==
    IF suspend THEN tuners.suspend_sampling_up_factor
    ELSE IF standby THEN tuners.standby_sampling_up_factor
    ELSE tuners.high_freq_sampling_up_factor

C28_Counted ==
    /\ tk'.step = "increase" =>
           /\ dbs.sampling_up_counter + 1 >= C28_UpFactor
           /\ dbs'.sampling_up_counter = 0
           /\ policy'.cur = increase_target(policy)
           /\ policy'.cur > policy.cur /\ policy'.cur <= policy.max
    /\ tk'.step = "up_delay" =>
           /\ dbs.sampling_up_counter + 1 < C28_UpFactor
           /\ dbs'.sampling_up_counter = dbs.sampling_up_counter + 1
           /\ policy'.cur = policy.cur
           /\ dbs'.requested_freq = dbs.requested_freq
    /\ (C28_Over /\ policy'.cur > policy.cur /\ ~tk'.boosted) =>
           tk'.step = "increase"

C28_Step ==
    (tk'.kind = "tick" /\ C28_Delayed) =>
        /\ C28_Counted
        /\ ~C28_Over => dbs'.sampling_up_counter = 0

C28_IncreaseDelay == [][C28_Step]_vars

\* what holds: the counting of the ticks over the threshold
C28_StepCounted == (tk'.kind = "tick" /\ C28_Delayed) => C28_Counted

C28_IncreaseCounted == [][C28_StepCounted]_vars

\* what holds: a tick not over the threshold resets the counter unless it
\* returned from the input boost or from the hard ceiling enforcement
C28_StepReset ==
    (tk'.kind = "tick" /\ C28_Delayed /\ ~C28_Over
     /\ tk'.step \notin {"boost", "hard"}) => dbs'.sampling_up_counter = 0

C28_ResetUnlessReturned == [][C28_StepReset]_vars

\* a tick with a count in progress that was not over the threshold and
\* left the count as it was
C28_CountKept ==
    /\ tk.kind = "tick" /\ tk.step \in {"boost", "hard"}
    /\ C28_MaxLoad(tk.smp) <= 99
    /\ dbs.sampling_up_counter > 0

(***************************************************************************)
(* C29: in Standby or Suspend a tick with the load below down_threshold,   *)
(* not boosted or above input_boost_freq, requests at once (no down_skip   *)
(* hysteresis) the frequency requested_freq * load / (up_threshold -       *)
(* down_differential) brought to a table step and limited to policy->min,  *)
(* and the frequency does not rise.  As stated the table step is the one   *)
(* below (C29_AsStated); the code takes the lowest step at or above, and   *)
(* only in a tick that reaches the decrease step (C29_DirectDecrease).     *)
(***************************************************************************)
C29_Applies ==
    /\ tk'.kind = "tick"
    /\ suspend \/ standby
    /\ tk'.under
    /\ ~tk'.boosted \/ policy.cur > tuners.input_boost_freq

C29_Target(rel) ==
    Max2(TableTarget(policy.min, policy.max,
                     (dbs.requested_freq * C28_MaxLoad(tk'.smp))
                         \div (tuners.up_threshold - tuners.down_differential),
                     rel),
         policy.min)

C29_StepAsStated ==
    C29_Applies =>
        /\ dbs'.requested_freq = C29_Target("H")
        /\ policy'.cur <= policy.cur

C29_Step ==
    (C29_Applies /\ tk'.step \notin {"boost", "hard", "at_min"}) =>
        /\ tk'.step = "decrease"
        /\ dbs'.requested_freq = C29_Target("L")
        /\ dbs'.down_skip = 0
        /\ policy'.cur = DriverTarget(policy, C29_Target("L"), "L")
        /\ dbs'.requested_freq <= dbs.requested_freq
        /\ policy'.cur <= policy.cur

C30_Window == tuners.oc_freq_boost_ms # 0

C30_Pinned == suspend /\ tuners.max_non_oc_freq # 0 /\ ~C30_Window

C30_Target ==
    IF suspend
    THEN IF C30_Pinned THEN tuners.max_non_oc_freq ELSE policy.max
    ELSE tuners.input_boost_freq

C30_Raised(target) ==
    policy.cur < target =>
        /\ tk'.step = "boost"
        /\ dbs'.requested_freq = target
        /\ policy'.cur = TableTarget(policy.min, policy.max, target, "H")
        /\ policy'.cur > policy.cur
        /\ UNCHANGED <<standby, suspend, delay>>
        /\ dbs'.sampling_up_counter = dbs.sampling_up_counter
        /\ dbs'.standby_counter = dbs.standby_counter
        /\ dbs'.down_skip = dbs.down_skip

C30_StepAsStated ==
    (tk'.kind = "tick" /\ tk'.boosted) =>
        /\ C30_Raised(IF suspend THEN policy.max ELSE tuners.input_boost_freq)
        /\ (suspend /\ C30_Window /\ tuners.max_non_oc_freq # 0) =>
               tk'.max_freq_hard = Min2(tuners.max_non_oc_freq, policy.max)

C30_AsStated == [][C30_StepAsStated]_vars

C30_Step ==
    (tk'.kind = "tick" /\ tk'.boosted) =>
        /\ C30_Raised(C30_Target)
        /\ C30_Pinned =>
               tk'.max_freq_hard = Min2(tuners.max_non_oc_freq, policy.max)
        /\ (suspend /\ ~C30_Pinned) => tk'.max_freq_hard = policy.max

C30_BoostTarget == [][C30_Step]_vars

\* a boosted Suspend tick that raised the frequency to max_non_oc_freq,
\* below policy->max
C30_Witness ==
    /\ tk.kind = "tick" /\ tk.boosted /\ tk.step = "boost" /\ suspend
    /\ ~C30_Window
    /\ policy.cur = tuners.max_non_oc_freq
    /\ policy.cur < policy.max
    /\ tk.max_freq_hard = tuners.max_non_oc_freq

(***************************************************************************)
(* C31: a load-driven increase never requests a frequency above the soft   *)
(* ceiling of its tick (the ceiling of the mode limited to the hard        *)
(* ceiling), whatever policy->cur is next to requested_freq; and a tick    *)
(* over the threshold whose requested_freq is at or above the soft ceiling *)
(* changes no frequency.                                                   *)
(***************************************************************************)
C31_StepIncrease ==
    (tk'.kind = "tick" /\ tk'.step = "increase") =>
        dbs'.requested_freq <= tk'.max_freq_soft

C31_StepAtCeiling ==
    (tk'.kind = "tick" /\ tk'.step = "at_soft") =>
        /\ dbs.requested_freq >= tk'.max_freq_soft
        /\ dbs'.requested_freq = dbs.requested_freq
        /\ policy'.cur = policy.cur

C31_SoftCeiling == [][C31_StepIncrease /\ C31_StepAtCeiling]_vars

\* what holds: the stop at the ceiling
C31_StopAtCeiling == [][C31_StepAtCeiling]_vars

\* what holds: an increase from the frequency that was requested stays
\* under a soft ceiling that is a table frequency
C31_StepInStep ==
    (tk'.kind = "tick" /\ tk'.step = "increase"
     /\ policy.cur <= dbs.requested_freq
     /\ tk'.max_freq_soft \in TableFreqs) =>
        dbs'.requested_freq <= tk'.max_freq_soft

C31_IncreaseInStep == [][C31_StepInStep]_vars

\* an increase from a frequency the governor had not requested, to above
\* the soft ceiling
C31_AboveCeiling ==
    /\ tk.kind = "tick" /\ tk.step = "increase"
    /\ dbs.requested_freq > tk.max_freq_soft

(***************************************************************************)
(* C32: every positive hotplug decision is acted on in its tick, in every  *)
(* mode: check_up() true queues up_work; check_up() false and check_down() *)
(* true queues down_work.                                                  *)
(***************************************************************************)
C32_StepUp ==
    (tk'.kind = "tick" /\ tk'.up) => (tk'.q_up /\ up_work')

C32_StepDown ==
    (tk'.kind = "tick" /\ ~tk'.up /\ tk'.dn) => (tk'.q_down /\ down_work')

C32_DecisionActedOn == [][C32_StepUp /\ C32_StepDown]_vars

\* what holds: the online decision in every mode, the offline decision in
\* Standby and in Suspend
C32_StepInactive ==
    /\ C32_StepUp
    /\ (standby \/ suspend) => C32_StepDown

C32_ActedOnUnlessActive == [][C32_StepInactive]_vars

\* an Active tick whose check_down() scanned the history, returned true
\* and emptied it, with no down_work queued
C32_HistoryLost ==
    /\ tk.kind = "tick" /\ tk.dn /\ ~tk.q_down /\ ~down_work
    /\ tk.pushed > 0 /\ num_hist = 0
    /\ Cardinality(cpu_online) > 1

(***************************************************************************)
(* C33: every execution of the tick schedules exactly one next tick, with  *)
(* a delay d, 1 <= d <= the current sampling period, that makes the firing *)
(* time a multiple of the period; the period is never 0.                   *)
(***************************************************************************)
\* the tick has run and returned into do_dbs_timer()
C33_Ran == tk'.kind = "tick" /\ dwork.running /\ ~dwork'.running

\* the timer of the work is set d jiffies ahead, on a multiple of the period
C33_Aligned ==
    /\ dwork'.timer /\ ~dwork'.queued
    /\ delay' >= 1
    /\ dwork'.expires - jiffies >= 1
    /\ dwork'.expires - jiffies <= delay'
    /\ dwork'.expires % delay' = 0

C33_NextTick == [][C33_Ran => C33_Aligned]_vars

\* C33, the period: delay is at least one jiffy in every state
C33_PeriodPositive == delay >= 1

\* C33, what holds: a tick that ends with a period of at least one jiffy and
\* no instance of the work pending sets the timer as stated, and a tick that
\* ends while the work is pending leaves that one instance
C33_StepPositive ==
    (C33_Ran /\ delay' >= 1) =>
        IF dwork.timer \/ dwork.queued
        THEN dwork' = [dwork EXCEPT !.running = FALSE]
        ELSE C33_Aligned

C33_NextTickPositive == [][C33_StepPositive]_vars

\* C33, the sysfs writes alone keep the period: a store never leaves 0
C33_StepStore ==
    (tk'.kind = "store" /\ delay >= 1 /\ tuners.sampling_rate >= 1) =>
        (delay' >= 1 /\ tuners'.sampling_rate >= 1)

C33_StoreKeepsPeriod == [][C33_StepStore]_vars

\* a tick has ended with a period of 0 and no next tick
C33_ChainStopped ==
    /\ tk.kind = "tick" /\ delay = 0
    /\ ~dwork.timer /\ ~dwork.queued /\ ~dwork.running

\* a tick has set its timer less than a period ahead, on a multiple of it
C33_Shortened ==
    /\ tk.kind = "tick" /\ delay >= 1 /\ dwork.timer
    /\ dwork.expires - jiffies < delay /\ dwork.expires % delay = 0

(***************************************************************************)
(* C34: cpu_up_rate and cpu_down_rate are at least 1 in every reachable    *)
(* state, after any sequence of setter calls, so count % rate never        *)
(* divides by zero.                                                        *)
(***************************************************************************)
C34_RatesPositive == tuners.cpu_up_rate >= 1 /\ tuners.cpu_down_rate >= 1

\* C34, what holds: the setters keep the rates at or under the capacity of
\* the history, and a rate of 0 is left only by a write of 0
C34_StepStore ==
    /\ tuners'.cpu_up_rate <= MAX_HOTPLUG_RATE
    /\ tuners'.cpu_down_rate <= MAX_HOTPLUG_RATE
    /\ \A input \in 1..MaxRateInput :
          /\ store_cpu_up_rate(input) => tuners'.cpu_up_rate >= 1
          /\ store_cpu_down_rate(input) => tuners'.cpu_down_rate >= 1

C34_RatesBounded == [][C34_StepStore]_vars

\* a tick has taken count % rate in check_up() or check_down() at rate 0
C34_DividedByZero ==
    /\ tk.kind = "tick" /\ tk.pushed > 0
    /\ \/ tuners.cpu_up_rate = 0 /\ tk.up_rule = 5
       \/ tuners.cpu_down_rate = 0 /\ tk.dn_eval /\ tk.dn_rule = 5

(***************************************************************************)
(* C35: when max_cpu_lock is set and the online count is at or below it,   *)
(* no online action, queued by a tick whose check_up() was true or by      *)
(* cpufreq_dynamic_min_cpu_lock(), raises the online count above           *)
(* max_cpu_lock, in Active as well as in Standby.                          *)
(***************************************************************************)
C35_StepUp ==
    (/\ cpu_up_work
     /\ tuners.max_cpu_lock # 0
     /\ Cardinality(cpu_online) <= tuners.max_cpu_lock)
        => Cardinality(cpu_online') <= tuners.max_cpu_lock

C35_MaxLockHeld == [][C35_StepUp]_vars

\* C35, what holds: with max_cpu_lock set and the online count at or above
\* it, check_up() is false and the tick queues no online action
C35_StepTick ==
    (/\ tk'.kind = "tick"
     /\ tuners.max_cpu_lock # 0
     /\ Cardinality(cpu_online) >= tuners.max_cpu_lock)
        => (~tk'.up /\ ~tk'.q_up)

C35_TickHoldsAtLock == [][C35_StepTick]_vars

\* the online action has passed max_cpu_lock outside Standby
C35_LockPassed ==
    /\ ~standby /\ ~up_work
    /\ tuners.max_cpu_lock # 0
    /\ Cardinality(cpu_online) = NR_CPUS
    /\ tuners.max_cpu_lock < NR_CPUS

(***************************************************************************)
(* C36: when min_cpu_lock is set and the online count is at or above it,   *)
(* no offline action queued by a tick reduces the online count below       *)
(* min_cpu_lock.                                                           *)
(***************************************************************************)
C36_StepDown ==
    (/\ cpu_down_work
     /\ tuners.min_cpu_lock # 0
     /\ Cardinality(cpu_online) >= tuners.min_cpu_lock)
        => Cardinality(cpu_online') >= tuners.min_cpu_lock

C36_MinLockHeld == [][C36_StepDown]_vars

\* C36, what holds: with min_cpu_lock set, the online count at or below it
\* and not above a max_cpu_lock, check_down() is false and the tick queues
\* no offline action
C36_StepTick ==
    (/\ tk'.kind = "tick"
     /\ tuners.min_cpu_lock # 0
     /\ Cardinality(cpu_online) <= tuners.min_cpu_lock
     /\ ~(tuners.max_cpu_lock # 0
          /\ Cardinality(cpu_online) > tuners.max_cpu_lock))
        => (~tk'.dn /\ ~tk'.q_down)

C36_TickHoldsAtLock == [][C36_StepTick]_vars

\* a tick above the lock has queued the offline action
C36_QueuedAboveLock ==
    /\ tk.kind = "tick" /\ tk.q_down /\ down_work
    /\ tuners.min_cpu_lock = 3 /\ tuners.max_cpu_lock = 0
    /\ Cardinality(cpu_online) = NR_CPUS

\* C36_QueuedAboveLock, then cpu_down_work: two cores are left
C36_StepQueued ==
    (C36_QueuedAboveLock /\ cpu_down_work) => Cardinality(cpu_online') = 2

C36_QueuedLeavesTwo == [][C36_StepQueued]_vars

(***************************************************************************)
(* C37: offline progress.  Whenever the offline action runs with two or    *)
(* more cores online and no boost floor applies, it takes at least one     *)
(* core offline; hence in Standby or Suspend the online count eventually   *)
(* drops to max_cpu_lock (to 1 without locks).                             *)
(***************************************************************************)
C37_NoFloor ==
    ~(is_boosted(tuners, last_input_time, ktime_us) /\ tuners.boost_mincpus # 0)

C37_StepProgress ==
    (cpu_down_work /\ Cardinality(cpu_online) >= 2 /\ C37_NoFloor)
        => Cardinality(cpu_online') < Cardinality(cpu_online)

C37_OfflineProgress == [][C37_StepProgress]_vars

\* C37, what holds: without a boost floor the offline action leaves exactly
\* two cores online, cpu 0 among them, whatever the locks are
C37_StepLeavesTwo ==
    (cpu_down_work /\ Cardinality(cpu_online) >= 2 /\ C37_NoFloor)
        => (Cardinality(cpu_online') = 2 /\ 0 \in cpu_online')

C37_LeavesTwo == [][C37_StepLeavesTwo]_vars

\* C37, the consequence: no step takes the online count from two or more to
\* one
C37_StepNeverOne ==
    Cardinality(cpu_online) >= 2 => Cardinality(cpu_online') >= 2

C37_NeverDownToOne == [][C37_StepNeverOne]_vars

\* in Standby without locks a tick has queued the offline action on two cores
C37_QueuedOnTwo ==
    /\ tk.kind = "tick" /\ tk.q_down /\ down_work /\ standby
    /\ tuners.min_cpu_lock = 0 /\ tuners.max_cpu_lock = 0
    /\ Cardinality(cpu_online) = 2

(***************************************************************************)
(* C38: with fixed tunables the system is never in Standby while boosted,  *)
(* for every interleaving of the input handler with a tick in progress: an *)
(* input event handled while a tick is between sampling the boost and      *)
(* active state and setting Standby cannot leave Standby set after both    *)
(* have finished.                                                          *)
(***************************************************************************)
\* neither dbs_check_cpu() nor the input handler is in progress
C38_Finished == dbs_check.pc = "idle" /\ input_pc = "idle"

C38_Boosted == is_boosted(tuners, last_input_time, ktime_us)

C38_NoStandbyWhileBoosted == C38_Finished => ~(standby /\ C38_Boosted)

\* C38, what holds: a tick whose sampled boost and active state are still
\* the current ones when it goes on, outside Standby-while-boosted, does not
\* end in Standby while boosted
C38_StepUntorn ==
    (/\ dbs_check.pc = "entered" /\ dbs_check'.pc = "idle"
     /\ dbs_check.boosted = C38_Boosted
     /\ dbs_check.active = is_active(suspend, standby)
     /\ ~(standby /\ C38_Boosted))
        => ~(standby' /\ C38_Boosted')

C38_UntornTick == [][C38_StepUntorn]_vars

\* the tick sampled "not boosted", an input event came, the tick entered
\* Standby, and both have finished
C38_StandbyInBoost ==
    /\ C38_Finished /\ tk.kind = "tick" /\ tk.entered
    /\ standby /\ C38_Boosted /\ ~dwork.running

(***************************************************************************)
(* C39: after a suspend notification followed by a resume notification,    *)
(* once both deferred works (the suspend work that stops the run-queue     *)
(* tracker, the resume work that restarts it) have executed, in whatever   *)
(* order, the tracker is running and the mode is Active.                   *)
(***************************************************************************)
\* one of the two works runs, none is pending afterwards, and the resume
\* notification has been taken (its work is pending or has run)
C39_BothDone ==
    /\ cpufreq_dynamic_suspend \/ cpufreq_dynamic_resume
    /\ ~suspend_work' /\ ~resume_work'
    /\ resume_work \/ ~suspend

C39_StepBothDone ==
    C39_BothDone => (rq_work' /\ is_active(suspend', standby'))

C39_TrackerRestarted == [][C39_StepBothDone]_vars

\* C39, what holds: the resume work always leaves the tracker running and
\* the mode Active, so the order suspend work, resume work ends as stated
C39_StepResumeLast ==
    cpufreq_dynamic_resume => (rq_work' /\ is_active(suspend', standby'))

C39_ResumeLast == [][C39_StepResumeLast]_vars

\* C39, what holds: the suspend work changes the tracker alone
C39_StepSuspendWork ==
    cpufreq_dynamic_suspend =>
        (~rq_work' /\ suspend' = suspend /\ standby' = standby)

C39_SuspendWorkStops == [][C39_StepSuspendWork]_vars

\* the resume work ran first: Active, both works done, the tracker stopped
C39_TrackerStopped ==
    /\ ~suspend /\ ~standby /\ ~suspend_work /\ ~resume_work /\ ~rq_work

\* UINT_MAX / 1000: the largest quotient of line 552
OC_LIMIT_MAX == 4294967

(***************************************************************************)
(* C40: the overclock credit limit equals oc_freq_boost_ms x present cores *)
(* x (policy.max - max_non_oc_freq) / 1000 without 32-bit wraparound of    *)
(* the intermediate product, for all accepted oc_freq_boost_ms and table   *)
(* frequencies, and is 0 exactly when policy.max <= max_non_oc_freq or     *)
(* oc_freq_boost_ms is 0; the top-up 2 x limit likewise does not wrap.     *)
(***************************************************************************)
\* present cores x (policy.max - max_non_oc_freq) / 1000: the limit of a
\* window of one millisecond (the frequencies of a table are multiples of
\* 1000 kHz apart)
C40_PerMs == (NR_CPUS * (policy.max - tuners.max_non_oc_freq)) \div 1000

C40_NoCredit ==
    policy.max <= tuners.max_non_oc_freq \/ tuners.oc_freq_boost_ms = 0

\* limit = oc_freq_boost_ms x C40_PerMs in the integers, by division
C40_Exact ==
    IF C40_NoCredit THEN tuners._oc_limit = 0
    ELSE /\ tuners._oc_limit % C40_PerMs = 0
         /\ tuners._oc_limit \div C40_PerMs = tuners.oc_freq_boost_ms

C40_LimitAsStated ==
    /\ C40_Exact
    /\ tuners._oc_limit = 0 <=> C40_NoCredit

\* C40, what holds: the limit is as stated while the product, 1000 times
\* the exact limit, fits an unsigned int: up to 10737 ms at 400 a ms
C40_LimitWhileFits ==
    (C40_NoCredit \/ tuners.oc_freq_boost_ms <= OC_LIMIT_MAX \div C40_PerMs)
        => C40_LimitAsStated

\* C40, what holds: the limit is a quotient by 1000 of an unsigned int, so
\* twice the limit fits an unsigned int
C40_LimitBounded == tuners._oc_limit <= OC_LIMIT_MAX

\* C40, what holds: the top-up an input event makes is twice the limit in
\* the integers, for every limit
C40_StepTopUp ==
    (tk'.kind = "input" /\ tuners._oc_limit # 0)
        => dbs'.oc_boost_cycles = 2 * tuners._oc_limit

C40_TopUpExact == [][C40_StepTopUp]_vars

\* the product has wrapped: the limit is under the one of a shorter window
C40_Wrapped ==
    /\ ~C40_NoCredit /\ tuners.oc_freq_boost_ms = 10738
    /\ tuners._oc_limit < 10737 * 400

\* the product has wrapped to 0: a limit of 0 with a window and an overclock
C40_WrappedToZero == ~C40_NoCredit /\ tuners._oc_limit = 0

\* an input event has topped the credit up from the largest limit reached
C40_ToppedUp ==
    /\ tk.kind = "input" /\ tuners.oc_freq_boost_ms = 10737
    /\ dbs.oc_boost_cycles = 2 * 4294800

====
